---- MODULE Spec2Model ----
(***************************************************************************)
(* Model of the finance bot (bot.py, utils.py, database.py,                *)
(* nlp_classifier.py, config.py): the /add and /fast conversations, the    *)
(* amount parser and the classifier threshold policy.                      *)
(*                                                                         *)
(* Text is a sequence of one-character strings.  The module is ASCII, so   *)
(* Cyrillic letters are written in Latin transliteration:                  *)
(*   "k" is the letter of the regex class [kK and Cyrillic ka], "r" "u"    *)
(*   "b" "l" "e" "j" "ya" spell the currency words rub, rublej, rublya,    *)
(*   "P" is the rouble sign (not a word character), other letters are      *)
(*   ordinary word characters.                                             *)
(* A number is kept exactly as [neg, whole, frac]: sign, integer part and  *)
(* the fraction digits without trailing zeros (the code uses a float).     *)
(***************************************************************************)
EXTENDS Integers, Sequences, FiniteSets, TLC

None == "None"

(***************************************************************************)
(* Characters and the regular expressions of utils.parse_amount            *)
(***************************************************************************)
Digits == {"0", "1", "2", "3", "4", "5", "6", "7", "8", "9"}

DigitVal(c) ==
    CASE c = "0" -> 0 [] c = "1" -> 1 [] c = "2" -> 2 [] c = "3" -> 3
      [] c = "4" -> 4 [] c = "5" -> 5 [] c = "6" -> 6 [] c = "7" -> 7
      [] c = "8" -> 8 [] c = "9" -> 9

\* \s
IsSpace(c) == c = " "

\* \w : letters, digits, underscore
IsWord(c) == c \notin {" ", "-", ".", ",", "P"}

\* [kK] under re.IGNORECASE
ThousandLetters == {"k", "K"}

\* [\.,]
DecimalSeps == {".", ","}

AllIn(s, S) == \A i \in 1..Len(s) : s[i] \in S

AllSpace(s) == \A i \in 1..Len(s) : IsSpace(s[i])

\* s[i..] ("" when i is past the end)
From(s, i) == SubSeq(s, i, Len(s))

\* str.strip()
RECURSIVE LStrip(_)
LStrip(s) == IF s # <<>> /\ IsSpace(s[1]) THEN LStrip(Tail(s)) ELSE s

RECURSIVE RStrip(_)
RStrip(s) ==
    IF s # <<>> /\ IsSpace(s[Len(s)]) THEN RStrip(SubSeq(s, 1, Len(s) - 1)) ELSE s

Strip(s) == RStrip(LStrip(s))

\* \d+(?:[\.,]\d+)? matches all of s
UnsignedTok(s) ==
    /\ Len(s) >= 1
    /\ \/ AllIn(s, Digits)
       \/ \E p \in 2..(Len(s) - 1) :
             /\ s[p] \in DecimalSeps
             /\ AllIn(SubSeq(s, 1, p - 1), Digits)
             /\ AllIn(SubSeq(s, p + 1, Len(s)), Digits)

\* -?\d+(?:[\.,]\d+)? matches all of s
NumTok(s) ==
    /\ Len(s) >= 1
    /\ UnsignedTok(IF s[1] = "-" THEN Tail(s) ELSE s)

\* the currency alternatives rub | rublej | rublya | r | (rouble sign)
CurrencyWords ==
    { <<"r", "u", "b">>, <<"r", "u", "b", "l", "e", "j">>,
      <<"r", "u", "b", "l", "ya">>, <<"r">> }

RoubleSign == <<"P">>

\* s starts with w
StartsWith(s, w) == Len(s) >= Len(w) /\ SubSeq(s, 1, Len(w)) = w

\* \b between the last character of w and the rest of s after w
BoundaryAfter(s, w) ==
    LET lastWord == IsWord(w[Len(w)])
        nextWord == Len(s) > Len(w) /\ IsWord(s[Len(w) + 1])
    IN  lastWord # nextWord

(***************************************************************************)
(* float(): the value of an unsigned numeric string                        *)
(***************************************************************************)
RECURSIVE DigitsValue(_)
DigitsValue(s) ==
    IF s = <<>> THEN 0
    ELSE 10 * DigitsValue(SubSeq(s, 1, Len(s) - 1)) + DigitVal(s[Len(s)])

RECURSIVE DropTrailingZeros(_)
DropTrailingZeros(s) ==
    IF s # <<>> /\ s[Len(s)] = "0"
    THEN DropTrailingZeros(SubSeq(s, 1, Len(s) - 1))
    ELSE s

SepPos(s) ==
    IF \E p \in 1..Len(s) : s[p] \in DecimalSeps
    THEN CHOOSE p \in 1..Len(s) : s[p] \in DecimalSeps
    ELSE Len(s) + 1

\* float(s.replace(',', '.')) of an unsigned token, with the sign given
FloatOf(s, negative) ==
    [ neg   |-> negative,
      whole |-> DigitsValue(SubSeq(s, 1, SepPos(s) - 1)),
      frac  |-> DropTrailingZeros(SubSeq(s, SepPos(s) + 1, Len(s))) ]

IsZero(a) == a.whole = 0 /\ a.frac = <<>>

\* a > 0, a <= 0
Positive(a) == ~a.neg /\ ~IsZero(a)

\* num * 1000
Times1000(a) ==
    LET padded == a.frac \o <<"0", "0", "0">>
    IN  [ neg   |-> a.neg,
          whole |-> a.whole * 1000 + DigitsValue(SubSeq(padded, 1, 3)),
          frac  |-> IF Len(a.frac) > 3 THEN SubSeq(a.frac, 4, Len(a.frac)) ELSE <<>> ]

(***************************************************************************)
(* utils.parse_amount                                                      *)
(***************************************************************************)
\* None where the code has a float, and None where it has a str (TLC compares
\* values of one shape only, so each None has the shape of its field)
NoAmount == [neg |-> FALSE, whole |-> -1, frac |-> <<>>]

NoText == <<"None">>

\* return None, None
Failure == [amount |-> NoAmount, description |-> NoText]

\* "continue": the pattern did not match, or float() raised ValueError
Continue == [amount |-> NoAmount, description |-> <<"continue">>]

\* k_pattern up to the thousand letter: ^(NUM)\s*[kK], NUM = s[1..n]
KSplit(s, n) ==
    /\ NumTok(SubSeq(s, 1, n))
    /\ \E m \in (n + 1)..Len(s) :
          AllSpace(SubSeq(s, n + 1, m - 1)) /\ s[m] \in ThousandLetters

KMatches(s) == \E n \in 1..Len(s) : KSplit(s, n)

KNumEnd(s) == CHOOSE n \in 1..Len(s) : KSplit(s, n)

KLetterPos(s) ==
    CHOOSE m \in (KNumEnd(s) + 1)..Len(s) :
        AllSpace(SubSeq(s, KNumEnd(s) + 1, m - 1)) /\ s[m] \in ThousandLetters

\* (?:\s*(?:rub\b|rublej\b|rublya\b|r\b|P\b))?\s*(.*)$ applied to the text
\* after the thousand letter: group(2)
KDescription(rest) ==
    LET r1   == LStrip(rest)
        curs == { w \in CurrencyWords \cup {RoubleSign} :
                     StartsWith(r1, w) /\ BoundaryAfter(r1, w) }
    IN  IF curs # {}
        THEN LStrip(From(r1, Len(CHOOSE w \in curs : TRUE) + 1))
        ELSE r1

\* a faulty shorthand branch that forgets to multiply
\* (C14_PositiveThousands tells it from KResult)
KResult_Unscaled(s) ==
    LET num_str     == SubSeq(s, 1, KNumEnd(s))
        negative    == num_str[1] = "-"
        amount      == FloatOf(IF negative THEN Tail(num_str) ELSE num_str, negative)
        description == Strip(KDescription(From(s, KLetterPos(s) + 1)))
    IN  IF ~Positive(amount)
        THEN Failure
        ELSE [amount |-> amount, description |-> description]

\* lines 28-39: the branch taken when k_pattern matches
KResult(s) ==
    LET num_str     == SubSeq(s, 1, KNumEnd(s))
        negative    == num_str[1] = "-"
        num         == FloatOf(IF negative THEN Tail(num_str) ELSE num_str, negative)
        amount      == Times1000(num)
        description == Strip(KDescription(From(s, KLetterPos(s) + 1)))
    IN  IF ~Positive(amount)
        THEN Failure
        ELSE [amount |-> amount, description |-> description]

\* \s*(cur)?$ : what may follow the number at the end of the text
TailRest(t, curs) == LStrip(t) = <<>> \/ LStrip(t) \in curs

\* (NUM)\s*(cur)?$ matches all of r, NUM = r[1..b]
NumAtEnd(r, b, curs) ==
    NumTok(SubSeq(r, 1, b)) /\ TailRest(From(r, b + 1), curs)

\* \s+(NUM)\s*(cur)?$ matches all of r
TailMatch(r, curs) ==
    /\ r # <<>>
    /\ IsSpace(r[1])
    /\ \E b \in 1..Len(LStrip(r)) : NumAtEnd(LStrip(r), b, curs)

\* the number group of a text that NumAtEnd matches for some b
NumGroup(r, curs) ==
    SubSeq(r, 1, CHOOSE b \in 1..Len(r) : NumAtEnd(r, b, curs))

\* ^(.+?)\s+(NUM)\s*(cur)?$ : the lazy group 1 is the shortest prefix s[1..i]
\* after which the rest matches
DescNumMatches(s, curs) == \E i \in 1..Len(s) : TailMatch(From(s, i + 1), curs)

DescNumSplit(s, curs) ==
    CHOOSE i \in 1..Len(s) :
        /\ TailMatch(From(s, i + 1), curs)
        /\ \A j \in 1..(i - 1) : ~TailMatch(From(s, j + 1), curs)

\* str.replace('-', '')
RECURSIVE RemoveMinus(_)
RemoveMinus(s) ==
    IF s = <<>> THEN <<>>
    ELSE IF s[1] = "-" THEN RemoveMinus(Tail(s))
    ELSE <<s[1]>> \o RemoveMinus(Tail(s))

\* a faulty conversion that returns a zero amount
\* (C16_FailureCases tells it from Convert)
Convert_ZeroAllowed(amount_str, description) ==
    LET is_negative      == amount_str[1] = "-"
        amount_str_clean == RemoveMinus(amount_str)
    IN  IF ~UnsignedTok(amount_str_clean)
        THEN Continue
        ELSE [amount |-> FloatOf(amount_str_clean, is_negative), description |-> description]

\* lines 74-89: amount_str to a signed amount
Convert(amount_str, description) ==
    LET is_negative      == amount_str[1] = "-"
        amount_str_clean == RemoveMinus(amount_str)
    IN  IF ~UnsignedTok(amount_str_clean)
        THEN Continue
        ELSE LET amount == FloatOf(amount_str_clean, is_negative)
             IN  IF IsZero(amount)
                 THEN Failure
                 ELSE [amount |-> amount, description |-> description]

\* pattern 1 (three groups): description NUM [currency]; the rouble sign with
\* \b cannot end the text
Pattern1(s) ==
    IF ~DescNumMatches(s, CurrencyWords) THEN Continue
    ELSE LET i == DescNumSplit(s, CurrencyWords)
         IN  Convert(NumGroup(LStrip(From(s, i + 1)), CurrencyWords),
                     Strip(SubSeq(s, 1, i)))

\* pattern 2 (two groups): description NUM
Pattern2(s) ==
    IF ~DescNumMatches(s, {}) THEN Continue
    ELSE LET i  == DescNumSplit(s, {})
             g0 == SubSeq(s, 1, i)
             g1 == NumGroup(LStrip(From(s, i + 1)), {})
         IN  IF \/ g0[1] \in Digits
                \/ Len(g0) >= 2 /\ g0[1] = "-" /\ g0[2] \in Digits
             THEN Convert(g0, <<>>)
             ELSE Convert(g1, Strip(g0))

\* pattern 3 (two groups): NUM [currency]
Pattern3(s) ==
    LET curs == CurrencyWords \cup {RoubleSign}
    IN  IF ~(\E b \in 1..Len(s) : NumAtEnd(s, b, curs)) THEN Continue
        ELSE Convert(NumGroup(s, curs), <<>>)

parse_amount(text) ==
    IF Strip(text) = <<>> THEN Failure
    ELSE LET s == Strip(text)
         IN  IF KMatches(s) THEN KResult(s)
             ELSE IF Pattern1(s) # Continue THEN Pattern1(s)
             ELSE IF Pattern2(s) # Continue THEN Pattern2(s)
             ELSE IF Pattern3(s) # Continue THEN Pattern3(s)
             ELSE Failure

\* parse_amount on the texts the model sends, computed once
ParsedTexts ==
    { <<"k", "o", "f", "e", " ", "3", "0", "0">>,
      <<"t", "a", "x", "i", " ", "3", "0", "0", " ", "r", "u", "b">>,
      <<"o", "b", "e", "d", " ", "3", "0", "0">>,
      <<"3", "0", "0">>,
      <<"-", "3", "0", "0">>,
      <<"k", "o", "f", "e", " ", "-", "3", "0", "0">>,
      <<"0">>,
      <<"d", "a", "r", " ", "3", "0", "0">>,
      <<"x", " ", "3", "0", "0">> }

ParseTable == [t \in ParsedTexts |-> parse_amount(t)]

Parsed(text) == ParseTable[text]

(***************************************************************************)
(* utils.validate_amount                                                   *)
(***************************************************************************)
\* amount > 1000000000
OverLimit(a) ==
    /\ ~a.neg
    /\ \/ a.whole > 1000000000
       \/ a.whole = 1000000000 /\ a.frac # <<>>

\* return False, None, message
Invalid == [success |-> FALSE, amount |-> NoAmount]

\* a faulty validation that rejects the limit itself
\* (C17_ValidRange tells it from CheckAmount)
CheckAmount_BelowLimit(amount_str, amount) ==
    IF Strip(amount_str) = <<>> THEN Invalid
    ELSE IF amount = NoAmount THEN Invalid
    ELSE IF ~Positive(amount) THEN Invalid
    ELSE IF ~amount.neg /\ amount.whole >= 1000000000 THEN Invalid
    ELSE [success |-> TRUE, amount |-> amount]

\* lines 164-187, with `amount` the amount that parse_amount(amount_str) gave
\* at line 168: (success, amount); the error message is not modelled
CheckAmount(amount_str, amount) ==
    IF Strip(amount_str) = <<>> THEN Invalid
    ELSE IF amount = NoAmount THEN Invalid
    ELSE IF ~Positive(amount) THEN Invalid
    ELSE IF OverLimit(amount) THEN Invalid
    ELSE [success |-> TRUE, amount |-> amount]

validate_amount(amount_str) == CheckAmount(amount_str, Parsed(amount_str).amount)

(***************************************************************************)
(* config.py and the categories table of database.init_db                  *)
(***************************************************************************)
DEFAULT_CATEGORIES ==
    << "Eda", "Transport", "Razvlecheniya", "Kafe", "Produkty", "Zdorovye",
       "Obrazovanie", "Drugoe" >>

\* confidences are percentages: 0.8 is 80
CONFIDENCE_THRESHOLD == 80

HIGH_CONFIDENCE_THRESHOLD == 85

\* the id that stands for None (no row): AUTOINCREMENT ids start at 1
NoId == 0

CategoryIds == 1..Len(DEFAULT_CATEGORIES)

\* database.get_category_id: the id of the row with that name, or None
get_category_id(category_name) ==
    IF \E i \in CategoryIds : DEFAULT_CATEGORIES[i] = category_name
    THEN CHOOSE i \in CategoryIds : DEFAULT_CATEGORIES[i] = category_name
    ELSE NoId

\* the name found by the loop over database.get_all_categories(), or None
CategoryNameOf(category_id) ==
    IF category_id \in CategoryIds THEN DEFAULT_CATEGORIES[category_id] ELSE None

(***************************************************************************)
(* nlp_classifier.FinancialClassifier                                      *)
(***************************************************************************)
\* The trained pipeline is an artifact outside the source.  This one covers
\* every case of the threshold policy: a confidence at the high threshold,
\* at the low threshold, just below it, a label that is no row of the
\* categories table, and a description on which the pipeline raises.
PredictProba(text) ==
    CASE text = <<"k", "o", "f", "e">> -> [category |-> "Kafe", confidence |-> 85]
      [] text = <<"t", "a", "x", "i">> -> [category |-> "Transport", confidence |-> 80]
      [] text = <<"o", "b", "e", "d">> -> [category |-> "Eda", confidence |-> 79]
      [] text = <<"d", "a", "r">>      -> [category |-> "Podarki", confidence |-> 92]
      [] text = <<"x">>                -> [category |-> "raise", confidence |-> 0]
      [] OTHER                         -> [category |-> "Drugoe", confidence |-> 40]

\* a faulty predict that answers a failure of the pipeline with a sure label
\* (C11_ClassifierFallback tells it from predict)
predict_SureOnFailure(text) ==
    IF text = <<>> \/ text = NoText THEN [category |-> None, confidence |-> 0]
    ELSE IF PredictProba(text).category = "raise"
         THEN [category |-> "Drugoe", confidence |-> 100]
         ELSE PredictProba(text)

\* a faulty predict that guesses on an empty or non-text input
\* (C22_EmptyInput tells it from predict)
predict_GuessOnEmpty(text) ==
    IF text = <<>> \/ text = NoText THEN [category |-> "Drugoe", confidence |-> 100]
    ELSE IF PredictProba(text).category = "raise"
         THEN [category |-> None, confidence |-> 0]
         ELSE PredictProba(text)

\* predict(text): (category, confidence), on a trained classifier
predict(text) ==
    IF text = <<>> \/ text = NoText THEN [category |-> None, confidence |-> 0]
    ELSE IF PredictProba(text).category = "raise"
         THEN [category |-> None, confidence |-> 0]
         ELSE PredictProba(text)

\* a faulty policy that needs more than the threshold
\* (C20_ThresholdPolicy tells it from predict_with_threshold)
predict_with_threshold_Strict(text, threshold) ==
    LET p == predict(text)
    IN  IF p.confidence > threshold
        THEN [category |-> p.category, confidence |-> p.confidence, is_confident |-> TRUE]
        ELSE [category |-> None, confidence |-> p.confidence, is_confident |-> FALSE]

\* lines 247-260
predict_with_threshold(text, threshold) ==
    LET p == predict(text)
    IN  IF p.confidence >= threshold
        THEN [category |-> p.category, confidence |-> p.confidence, is_confident |-> TRUE]
        ELSE [category |-> None, confidence |-> p.confidence, is_confident |-> FALSE]

\* label_encoder.classes_: the labels of the training data
Labels ==
    { DEFAULT_CATEGORIES[i] : i \in CategoryIds } \cup {"Podarki"}

\* pipeline.predict_proba([text])[0] zipped with the labels (line 240): the
\* top label has the confidence of PredictProba, two others share the rest
PipelineProba(text) ==
    LET top    == PredictProba(text)
        others == Labels \ {top.category}
        second == CHOOSE l \in others : TRUE
        third  == CHOOSE l \in others \ {second} : TRUE
        rest   == 100 - top.confidence
    IN  [ l \in Labels |->
            IF l = top.category THEN top.confidence
            ELSE IF l = second THEN rest \div 2
            ELSE IF l = third THEN rest - (rest \div 2)
            ELSE 0 ]

\* the {} of lines 222 and 245
EmptyDistribution == [l \in {} |-> 0]

\* predict(text, return_probability=True): (category, confidence, probabilities)
predict_probabilities(text) ==
    IF text = <<>> \/ text = NoText
    THEN [category |-> None, confidence |-> 0, probabilities |-> EmptyDistribution]
    ELSE IF PredictProba(text).category = "raise"
         THEN [category |-> None, confidence |-> 0, probabilities |-> EmptyDistribution]
         ELSE [ category      |-> PredictProba(text).category,
                confidence    |-> PredictProba(text).confidence,
                probabilities |-> PipelineProba(text) ]

(***************************************************************************)
(* Statistics of a period and the 50/30/20 advice (config.py, utils.py)    *)
(*                                                                         *)
(* Money here is a whole number of roubles.  A percentage is kept exactly, *)
(* as the fraction num/den (the code uses a float).                        *)
(***************************************************************************)
\* BUDGET_RATIOS * 100
BUDGET_RATIOS == [essentials |-> 50, wants |-> 30, savings |-> 20]

\* the keys of BUDGET_RATIOS and of CATEGORY_GROUPS, in their order
Groups == <<"essentials", "wants", "savings">>

\* the table without "Kafe"
CATEGORY_GROUPS_Partial ==
    [ essentials |-> <<"Produkty", "Transport", "Zdorovye", "Obrazovanie">>,
      wants      |-> <<"Eda", "Razvlecheniya">>,
      savings    |-> <<"Drugoe">> ]

CATEGORY_GROUPS ==
    [ essentials |-> <<"Produkty", "Transport", "Zdorovye", "Obrazovanie">>,
      wants      |-> <<"Eda", "Kafe", "Razvlecheniya">>,
      savings    |-> <<"Drugoe">> ]

\* a / b of Python: ZeroDivisionError when b is 0
ZeroDivisionError == [num |-> 0, den |-> 0]

Divide(a, b) == IF b = 0 THEN ZeroDivisionError ELSE [num |-> a, den |-> b]

\* the literal 0 of `... else 0`
ZeroPercent == [num |-> 0, den |-> 1]

\* None in place of a row of a query
NoRow == [present |-> FALSE, category |-> "", amount |-> 0, count |-> 0]

\* cursor.rowcount of sqlite3 after a SELECT: -1, whatever the rows are
RowcountOfSelect(rows) == -1

\* lines 318-333: ORDER BY t.amount DESC LIMIT 1, taken if cursor.rowcount > 0
most_expensive(amounts) ==
    IF RowcountOfSelect(amounts) > 0
    THEN [NoRow EXCEPT !.present = TRUE,
                       !.amount = CHOOSE a \in amounts : \A b \in amounts : b <= a]
    ELSE NoRow

\* lines 335-350: GROUP BY c.name ORDER BY count DESC LIMIT 1, taken if
\* cursor.rowcount > 0
most_frequent(counts) ==
    IF RowcountOfSelect(DOMAIN counts) > 0
    THEN LET top == CHOOSE c \in DOMAIN counts :
                        \A d \in DOMAIN counts : counts[d] <= counts[c]
         IN  [NoRow EXCEPT !.present = TRUE, !.category = top, !.count = counts[top]]
    ELSE NoRow

\* database.get_period_statistics of a user with no transaction in the period:
\* by_category is the map category -> total of the rows of by_category
NoStats ==
    [ overall        |-> [transaction_count |-> 0, total_amount |-> 0],
      by_category    |-> [c \in {} |-> 0],
      amounts        |-> {},
      counts         |-> [c \in {} |-> 0],
      most_expensive |-> NoRow,
      most_frequent  |-> NoRow ]

\* the statistics after one more transaction of that amount in that category;
\* amounts are the amounts of the period's rows, counts the COUNT(t.id) of the
\* rows of by_category
WithTransaction(st, category, amount) ==
    LET amounts == st.amounts \cup {amount}
        counts  == [ c \in (DOMAIN st.counts) \cup {category} |->
                       (IF c \in DOMAIN st.counts THEN st.counts[c] ELSE 0)
                       + (IF c = category THEN 1 ELSE 0) ]
    IN  [ overall     |-> [ transaction_count |-> st.overall.transaction_count + 1,
                            total_amount      |-> st.overall.total_amount + amount ],
          by_category |-> [ c \in (DOMAIN st.by_category) \cup {category} |->
                              (IF c \in DOMAIN st.by_category THEN st.by_category[c] ELSE 0)
                              + (IF c = category THEN amount ELSE 0) ],
          amounts        |-> amounts,
          counts         |-> counts,
          most_expensive |-> most_expensive(amounts),
          most_frequent  |-> most_frequent(counts) ]

\* lines 283-287: the sum of category_expenses.get(category, 0) over a group
RECURSIVE GroupExpense(_, _)
GroupExpense(category_expenses, categories) ==
    IF categories = <<>> THEN 0
    ELSE (IF Head(categories) \in DOMAIN category_expenses
          THEN category_expenses[Head(categories)] ELSE 0)
         + GroupExpense(category_expenses, Tail(categories))

group_expenses(st) ==
    [g \in {"essentials", "wants", "savings"} |->
        GroupExpense(st.by_category, CATEGORY_GROUPS[g])]

\* lines 290-293
group_percentages(st) ==
    [g \in {"essentials", "wants", "savings"} |->
        IF st.overall.total_amount > 0
        THEN Divide(group_expenses(st)[g] * 100, st.overall.total_amount)
        ELSE ZeroPercent]

\* actual_percentage - ideal_percentage * 100, times the (positive) denominator
Deviation(percentage, ideal) == percentage.num - ideal * percentage.den

\* the bands with their ends excluded
ClassifyGroup_Inclusive(st, group) ==
    LET actual_percentage == group_percentages(st)[group]
        deviation         == Deviation(actual_percentage, BUDGET_RATIOS[group])
    IN  IF deviation >= 10 * actual_percentage.den
        THEN [kind |-> "over", group |-> group]
        ELSE IF deviation <= -10 * actual_percentage.den
             THEN [kind |-> "under", group |-> group]
             ELSE [kind |-> "on", group |-> group]

\* lines 296-321: the line appended for one group
ClassifyGroup(st, group) ==
    LET actual_percentage == group_percentages(st)[group]
        deviation         == Deviation(actual_percentage, BUDGET_RATIOS[group])
    IN  IF deviation > 10 * actual_percentage.den
        THEN [kind |-> "over", group |-> group]
        ELSE IF deviation < -10 * actual_percentage.den
             THEN [kind |-> "under", group |-> group]
             ELSE [kind |-> "on", group |-> group]

\* abs(group_percentages[group] - ideal * 100) <= 10
WithinBand(st, group) ==
    LET p == group_percentages(st)[group]
        d == Deviation(p, BUDGET_RATIOS[group])
    IN  d <= 10 * p.den /\ -d <= 10 * p.den

\* lines 323-332
OverallAdvice(st) ==
    IF WithinBand(st, "essentials") /\ WithinBand(st, "wants")
    THEN <<[kind |-> "great", group |-> "all"]>>
    ELSE IF ~WithinBand(st, "essentials")
         THEN <<[kind |-> "cut", group |-> "essentials"]>>
         ELSE <<[kind |-> "cut", group |-> "wants"]>>

\* utils.generate_budget_recommendations: the list of recommendations
generate_budget_recommendations(st) ==
    IF st.overall.total_amount <= 0
    THEN <<[kind |-> "no_data", group |-> "all"]>>
    ELSE [i \in 1..Len(Groups) |-> ClassifyGroup(st, Groups[i])] \o OverallAdvice(st)

\* lines 239-248 of analyze_spending_patterns (reached when transaction_count
\* is not 0): the percentage of each category of by_category[:3], here of
\* every category of by_category
InsightPercentages(st) ==
    [ c \in DOMAIN st.by_category |->
        IF st.overall.total_amount > 0
        THEN Divide(st.by_category[c] * 100, st.overall.total_amount)
        ELSE ZeroPercent ]

(***************************************************************************)
(* database.py: the categories and budgets tables                          *)
(***************************************************************************)
\* lines 68-75: INSERT OR IGNORE of each name, in the order of the list
RECURSIVE InsertOrIgnore(_, _)
InsertOrIgnore(names, new) ==
    IF new = <<>> THEN names
    ELSE InsertOrIgnore(
             IF \E i \in 1..Len(names) : names[i] = Head(new)
             THEN names ELSE Append(names, Head(new)),
             Tail(new))

\* INSERT in place of INSERT OR IGNORE
init_db_Insert(names) == names \o DEFAULT_CATEGORIES

\* database.init_db on the categories table
init_db(names) == InsertOrIgnore(names, DEFAULT_CATEGORIES)

\* UNIQUE(user_id, category_id, period)
SameBudgetKey(a, b) ==
    a.user_id = b.user_id /\ a.category_id = b.category_id /\ a.period = b.period

\* INSERT in place of INSERT OR REPLACE
set_budget_Insert(rows, user_id, category_id, amount_limit, period) ==
    Append(rows, [ user_id |-> user_id, category_id |-> category_id,
                   amount_limit |-> amount_limit, period |-> period ])

\* database.set_budget: INSERT OR REPLACE removes the row that has the key of
\* the new row and appends the new row
set_budget(rows, user_id, category_id, amount_limit, period) ==
    LET new == [ user_id |-> user_id, category_id |-> category_id,
                 amount_limit |-> amount_limit, period |-> period ]
        Other(row) == ~SameBudgetKey(row, new)
    IN  Append(SelectSeq(rows, Other), new)

\* database.delete_budget: the table without the rows of (user_id,
\* category_id), and cursor.rowcount > 0
delete_budget(rows, user_id, category_id) ==
    LET Kept(row) == ~(row.user_id = user_id /\ row.category_id = category_id)
    IN  [ rows    |-> SelectSeq(rows, Kept),
          deleted |-> Len(SelectSeq(rows, Kept)) < Len(rows) ]

\* COALESCE(SUM(t.amount), 0) over the user's transactions of the category;
\* every transaction of the model is of the current week and month
CurrentSpent(st, category_id) ==
    IF CategoryNameOf(category_id) \in DOMAIN st.by_category
    THEN st.by_category[CategoryNameOf(category_id)]
    ELSE 0

\* the usage without the test of the limit
BudgetStatus_Unguarded(row, st) ==
    LET current_spent == CurrentSpent(st, row.category_id)
    IN  [ category      |-> CategoryNameOf(row.category_id),
          amount_limit  |-> row.amount_limit,
          period        |-> row.period,
          current_spent |-> current_spent,
          percentage    |-> Divide(current_spent * 100, row.amount_limit),
          remaining     |-> row.amount_limit - current_spent,
          is_exceeded   |-> current_spent > row.amount_limit ]

\* a spend equal to the limit counted as exceeding it
BudgetStatus_Inclusive(row, st) ==
    LET current_spent == CurrentSpent(st, row.category_id)
    IN  [ category      |-> CategoryNameOf(row.category_id),
          amount_limit  |-> row.amount_limit,
          period        |-> row.period,
          current_spent |-> current_spent,
          percentage    |-> IF row.amount_limit > 0
                            THEN Divide(current_spent * 100, row.amount_limit)
                            ELSE ZeroPercent,
          remaining     |-> row.amount_limit - current_spent,
          is_exceeded   |-> current_spent >= row.amount_limit ]

\* lines 398-403: the derived fields of one budget row
BudgetStatus(row, st) ==
    LET current_spent == CurrentSpent(st, row.category_id)
    IN  [ category      |-> CategoryNameOf(row.category_id),
          amount_limit  |-> row.amount_limit,
          period        |-> row.period,
          current_spent |-> current_spent,
          percentage    |-> IF row.amount_limit > 0
                            THEN Divide(current_spent * 100, row.amount_limit)
                            ELSE ZeroPercent,
          remaining     |-> row.amount_limit - current_spent,
          is_exceeded   |-> current_spent > row.amount_limit ]

\* database.get_budget_status(user_id): the user's budgets whose category is
\* in the categories table, with their derived fields
get_budget_status(rows, user_id, st) ==
    LET Mine(row) == row.user_id = user_id /\ CategoryNameOf(row.category_id) # None
        mine == SelectSeq(rows, Mine)
    IN  [i \in 1..Len(mine) |-> BudgetStatus(mine[i], st)]

\* utils.format_budget_status: the mark, whether the text is the one with the
\* overrun, and the amount of its last line (the overrun or the remainder)
format_budget_status(budget) ==
    LET percentage == budget.percentage
        Above(n)   == percentage.num > n * percentage.den
    IN  [ status  |-> IF ~Above(90) THEN "ok"
                      ELSE IF ~Above(100) THEN "warning" ELSE "exceeded",
          overrun |-> Above(100),
          amount  |-> IF Above(100)
                      THEN budget.current_spent - budget.amount_limit
                      ELSE budget.remaining ]

\* the loop of budget_command over the budgets
FormatAll(list) == [i \in 1..Len(list) |-> format_budget_status(list[i])]

(***************************************************************************)
(* State                                                                   *)
(***************************************************************************)
VARIABLES
    conv,        \* conv_handler._conversations: user -> state of the /add conversation
    fast_conv,   \* fast_conv_handler._conversations: user -> state of /fast
    user_data,   \* context.user_data of each user: a dict, key -> value
    db,          \* the rows of the transactions table, in insertion order
    classifier,  \* bot.classifier after init_classifier: None or "loaded"
    last,        \* per user: what the handler of that user's last update did
    actor,       \* the user whose update was handled last
    entry,       \* a text given to parse_amount and validate_amount, and their results
    query,       \* a text and a threshold given to the classifier, and its answers
    stats,       \* get_period_statistics of a user: totals of the period's transactions
    budgets,     \* the rows of the budgets table
    categories,  \* the names of the categories table, in the order of their ids
    shown        \* what the reports computed from stats and budgets contain

vars ==
    << conv, fast_conv, user_data, db, classifier, last, actor, entry, query,
       stats, budgets, categories, shown >>

\* the tables and reports outside the /add and /fast router
data_vars == <<stats, budgets, categories, shown>>

\* the variables of the bot
bot_vars == <<conv, fast_conv, user_data, db, classifier, last, actor>>

\* bounds of the model
MaxTx == 1

Users == {1, 2}

\* states of the two ConversationHandlers (range(3), range(3, 5)) and END
DESCRIPTION == "DESCRIPTION"

AMOUNT == "AMOUNT"

CONFIRM_CATEGORY == "CONFIRM_CATEGORY"

FAST_CATEGORY == "FAST_CATEGORY"

FAST_AMOUNT == "FAST_AMOUNT"

END == "END"

\* the handler raised: ConversationHandler keeps the state
Raised == "raised"

(***************************************************************************)
(* dict operations on user_data                                            *)
(***************************************************************************)
EmptyUD == [k \in {} |-> None]

Has(ud, k) == k \in DOMAIN ud

\* ud[k] = v
Put(ud, k, v) == [x \in (DOMAIN ud) \cup {k} |-> IF x = k THEN v ELSE ud[x]]

\* ud.get(k, default)
Get(ud, k, default) == IF Has(ud, k) THEN ud[k] ELSE default

\* what a handler did: the new user_data, the state it returned, the inline
\* keyboard it sent, its calls of database.insert_transaction and its reply
Result(ud, ret, kb, calls, msg) ==
    [ud |-> ud, ret |-> ret, kb |-> kb, calls |-> calls, msg |-> msg]

\* a faulty record that is booked on user 1 whoever sent the update
\* (C12_UserPartition tells it from InsertArgs)
InsertArgs_FirstUser(user_id, amount, description, category_id) ==
    [ user_id |-> 1, amount |-> amount, description |-> description,
      category_id |-> category_id ]

InsertArgs(user_id, amount, description, category_id) ==
    [ user_id |-> user_id, amount |-> amount, description |-> description,
      category_id |-> category_id ]

\* the inline keyboards: "confirm" = [confirm_yes, change_category],
\* "categories" = [select_cat_<id> for every category, cancel_add],
\* "save" = [confirm_yes, cancel_add],
\* "fast_categories" = [fast_cat_<id> for every category, fast_cancel]
Buttons(kb) ==
    CASE kb = "confirm"         -> {"confirm_yes", "change_category"}
      [] kb = "categories"      -> {"select_cat", "cancel_add"}
      [] kb = "save"            -> {"confirm_yes", "cancel_add"}
      [] kb = "fast_categories" -> {"fast_cat", "fast_cancel"}
      [] OTHER                  -> {}

CallbackData(name, id) == [name |-> name, id |-> id]

(***************************************************************************)
(* bot.py: the handlers                                                    *)
(***************************************************************************)
\* cancel: the application-level /cancel handler
cancel(ud) == Result(ud, END, "none", <<>>, "cancelled")

add_transaction_start(ud) == Result(ud, DESCRIPTION, "none", <<>>, "prompt")

NeedsChoice == "? Trebuetsya vybor"

\* a faulty automatic save that reports success without the INSERT
\* (C1_AutoCommit tells it from AutoCommit)
AutoCommit_NoInsert(user_id, ud, ok) ==
    Result(EmptyUD, END, "none", <<>>, "added_auto")

\* lines 329-356 of add_transaction_text: the automatic save
AutoCommit(user_id, ud, ok) ==
    Result(EmptyUD, END, "none",
           << InsertArgs(user_id, ud["amount"], ud["description"], ud["category_id"]) >>,
           IF ok THEN "added_auto" ELSE "error_saving")

\* lines 358-411 of add_transaction_text: confirmation or manual choice
AskCategory(ud) ==
    IF Get(ud, "is_auto_category", FALSE)
    THEN Result(ud, CONFIRM_CATEGORY, "confirm", <<>>, "check")
    ELSE Result(ud, CONFIRM_CATEGORY, "categories", <<>>, "choose")

\* lines 296-326 of add_transaction_text: classification into user_data
Classify(ud, description, clf) ==
    LET p == predict_with_threshold(description, CONFIDENCE_THRESHOLD)
    IN  IF clf # None /\ description # <<>>
        THEN IF p.is_confident
             THEN [ ud |-> Put(Put(Put(Put(Put(ud,
                             "is_auto_category", TRUE),
                             "confidence", p.confidence),
                             "is_high_confidence", p.confidence >= HIGH_CONFIDENCE_THRESHOLD),
                             "suggested_category", p.category),
                             "category_id", get_category_id(p.category)),
                    is_high_confidence |-> p.confidence >= HIGH_CONFIDENCE_THRESHOLD ]
             ELSE [ ud |-> Put(Put(Put(Put(Put(ud,
                             "is_auto_category", FALSE),
                             "confidence", p.confidence),
                             "is_high_confidence", FALSE),
                             "suggested_category", NeedsChoice),
                             "category_id", get_category_id("Drugoe")),
                    is_high_confidence |-> FALSE ]
        ELSE [ ud |-> Put(Put(ud, "suggested_category", "Drugoe"),
                          "category_id", get_category_id("Drugoe")),
               is_high_confidence |-> FALSE ]

add_transaction_text(user_id, ud, user_text, clf, ok) ==
    LET parsed == Parsed(user_text)
    IN  IF parsed.amount = NoAmount
        THEN Result(ud, DESCRIPTION, "none", <<>>, "cannot_parse")
        ELSE LET c == Classify(Put(Put(ud, "amount", parsed.amount),
                                   "description", parsed.description),
                               parsed.description, clf)
             IN  IF c.is_high_confidence
                 THEN AutoCommit(user_id, c.ud, ok)
                 ELSE AskCategory(c.ud)

\* a faulty change_category that drops the pending text
\* (C9_MidBandConfirm tells it from change_category_callback)
change_category_callback_Reset(ud) ==
    Result(EmptyUD, CONFIRM_CATEGORY, "categories", <<>>, "choose")

change_category_callback(ud) == Result(ud, CONFIRM_CATEGORY, "categories", <<>>, "choose")

\* `if amount and category_id`
Truthy(amount, category_id) ==
    amount # NoAmount /\ ~IsZero(amount) /\ category_id # NoId

\* a faulty confirm_yes that keeps user_data when the INSERT fails
\* (C5_CommitClears tells it from ConfirmYes)
ConfirmYes_KeepOnFailure(user_id, ud, ok) ==
    IF Truthy(Get(ud, "amount", NoAmount), Get(ud, "category_id", NoId))
    THEN Result(IF ok THEN EmptyUD ELSE ud, END, "none",
                << InsertArgs(user_id, ud["amount"], Get(ud, "description", NoText),
                              ud["category_id"]) >>,
                IF ok THEN "added" ELSE "error_saving")
    ELSE Result(EmptyUD, END, "none", <<>>, "lost")

\* lines 421-458 of confirm_category_callback
ConfirmYes(user_id, ud, ok) ==
    IF Truthy(Get(ud, "amount", NoAmount), Get(ud, "category_id", NoId))
    THEN Result(EmptyUD, END, "none",
                << InsertArgs(user_id, ud["amount"], Get(ud, "description", NoText),
                              ud["category_id"]) >>,
                IF ok THEN "added" ELSE "error_saving")
    ELSE Result(EmptyUD, END, "none", <<>>, "lost")

confirm_category_callback(user_id, ud, data, ok) ==
    IF data.name = "change_category" THEN change_category_callback(ud)
    ELSE IF data.name = "confirm_yes" THEN ConfirmYes(user_id, ud, ok)
    ELSE IF data.name = "confirm_no"
         THEN Result(ud, DESCRIPTION, "none", <<>>, "reenter")
         ELSE Result(ud, CONFIRM_CATEGORY, "none", <<>>, "none")

cancel_add(ud) == Result(EmptyUD, END, "none", <<>>, "cancelled")

\* a faulty selection that asks to save without storing the selected id
\* (C10_ManualSelect tells it from category_selection_callback)
category_selection_callback_KeepCategory(ud, data, raises) ==
    IF data.name = "cancel_add" THEN Result(EmptyUD, END, "none", <<>>, "cancelled")
    ELSE IF data.name = "select_cat" /\ CategoryNameOf(data.id) # None
         THEN Result(Put(ud, "is_auto_category", FALSE), CONFIRM_CATEGORY, "save",
                     <<>>, "confirm")
         ELSE Result(ud, CONFIRM_CATEGORY, "none", <<>>, "none")

\* lines 637-682: `raises` is format_money(0) on the int default of a missing
\* amount, an AttributeError where int has no is_integer
\* the selection also forgets the description
category_selection_callback_DropDescription(ud, data, raises) ==
    IF data.name = "cancel_add" THEN Result(EmptyUD, END, "none", <<>>, "cancelled")
    ELSE IF data.name = "select_cat" /\ CategoryNameOf(data.id) # None
         THEN LET ud1 == Put(Put(Put(Put(ud,
                           "suggested_category", CategoryNameOf(data.id)),
                           "category_id", data.id),
                           "is_auto_category", FALSE),
                           "description", NoText)
              IN  IF raises /\ ~Has(ud, "amount")
                  THEN Result(ud1, Raised, "none", <<>>, "exception")
                  ELSE Result(ud1, CONFIRM_CATEGORY, "save", <<>>, "confirm")
         ELSE Result(ud, CONFIRM_CATEGORY, "none", <<>>, "none")

category_selection_callback(ud, data, raises) ==
    IF data.name = "cancel_add" THEN Result(EmptyUD, END, "none", <<>>, "cancelled")
    ELSE IF data.name = "select_cat" /\ CategoryNameOf(data.id) # None
         THEN LET ud1 == Put(Put(Put(ud,
                           "suggested_category", CategoryNameOf(data.id)),
                           "category_id", data.id),
                           "is_auto_category", FALSE)
              IN  IF raises /\ ~Has(ud, "amount")
                  THEN Result(ud1, Raised, "none", <<>>, "exception")
                  ELSE Result(ud1, CONFIRM_CATEGORY, "save", <<>>, "confirm")
         ELSE Result(ud, CONFIRM_CATEGORY, "none", <<>>, "none")

fast_add_start(ud) == Result(ud, FAST_CATEGORY, "fast_categories", <<>>, "prompt")

\* the first category stored in place of the selected one
fast_category_callback_FirstCategory(ud, data) ==
    IF data.name = "fast_cancel" THEN Result(ud, END, "none", <<>>, "cancelled")
    ELSE IF data.name = "fast_cat"
         THEN IF CategoryNameOf(data.id) = None
              THEN Result(ud, END, "none", <<>>, "not_found")
              ELSE Result(Put(Put(ud, "fast_category_id", 1),
                              "fast_category_name", CategoryNameOf(1)),
                          FAST_AMOUNT, "none", <<>>, "enter_amount")
         ELSE Result(ud, FAST_CATEGORY, "none", <<>>, "none")

fast_category_callback(ud, data) ==
    IF data.name = "fast_cancel" THEN Result(ud, END, "none", <<>>, "cancelled")
    ELSE IF data.name = "fast_cat"
         THEN IF CategoryNameOf(data.id) = None
              THEN Result(ud, END, "none", <<>>, "not_found")
              ELSE Result(Put(Put(ud, "fast_category_id", data.id),
                              "fast_category_name", CategoryNameOf(data.id)),
                          FAST_AMOUNT, "none", <<>>, "enter_amount")
         ELSE Result(ud, FAST_CATEGORY, "none", <<>>, "none")

\* a faulty /fast save that waits for another amount when the INSERT fails
\* (C7_NoSecondInsert tells it from fast_amount_input)
fast_amount_input_Retry(user_id, ud, user_text, ok) ==
    LET v == validate_amount(user_text)
    IN  IF ~v.success
        THEN Result(ud, FAST_AMOUNT, "none", <<>>, "invalid_amount")
        ELSE IF Get(ud, "fast_category_id", NoId) = NoId
             THEN Result(EmptyUD, END, "none", <<>>, "lost")
             ELSE Result(IF ok THEN EmptyUD ELSE ud,
                         IF ok THEN END ELSE FAST_AMOUNT, "none",
                         << InsertArgs(user_id, v.amount, NoText, ud["fast_category_id"]) >>,
                         IF ok THEN "added" ELSE "error_saving")

\* a faulty /fast amount step that saves without a selected category
\* (C13_LostState tells it from fast_amount_input)
fast_amount_input_Uncategorised(user_id, ud, user_text, ok) ==
    LET v == validate_amount(user_text)
    IN  IF ~v.success
        THEN Result(ud, FAST_AMOUNT, "none", <<>>, "invalid_amount")
        ELSE Result(EmptyUD, END, "none",
                    << InsertArgs(user_id, v.amount, NoText,
                                  Get(ud, "fast_category_id", NoId)) >>,
                    IF ok THEN "added" ELSE "error_saving")

\* a rejected amount ends the conversation and clears the pending state
fast_amount_input_EndOnFailure(user_id, ud, user_text, ok) ==
    LET v == validate_amount(user_text)
    IN  IF ~v.success
        THEN Result(EmptyUD, END, "none", <<>>, "invalid_amount")
        ELSE IF Get(ud, "fast_category_id", NoId) = NoId
             THEN Result(EmptyUD, END, "none", <<>>, "lost")
             ELSE Result(EmptyUD, END, "none",
                         << InsertArgs(user_id, v.amount, NoText, ud["fast_category_id"]) >>,
                         IF ok THEN "added" ELSE "error_saving")

fast_amount_input(user_id, ud, user_text, ok) ==
    LET v == validate_amount(user_text)
    IN  IF ~v.success
        THEN Result(ud, FAST_AMOUNT, "none", <<>>, "invalid_amount")
        ELSE IF Get(ud, "fast_category_id", NoId) = NoId
             THEN Result(EmptyUD, END, "none", <<>>, "lost")
             ELSE Result(EmptyUD, END, "none",
                         << InsertArgs(user_id, v.amount, NoText, ud["fast_category_id"]) >>,
                         IF ok THEN "added" ELSE "error_saving")

cancel_fast_add(ud) == Result(EmptyUD, END, "none", <<>>, "cancelled")

(***************************************************************************)
(* Updates and their dispatch (main: the handlers of group 0, in the order *)
(* of add_handler; the first handler that accepts an update handles it)    *)
(***************************************************************************)
NoData == CallbackData("none", 0)

Command(name) == [kind |-> "command", text |-> <<name>>, data |-> NoData]

TextMessage(text) == [kind |-> "text", text |-> text, data |-> NoData]

CallbackQuery(data) == [kind |-> "callback", text |-> <<>>, data |-> data]

IsCommand(upd, name) == upd.kind = "command" /\ upd.text = <<name>>

NoHandler == "none"

\* conv_handler.check_update: entry points first (allow_reentry), then the
\* handlers of the current state, then the fallbacks
ConvHandlerOf(state, upd) ==
    IF IsCommand(upd, "/add") THEN "add_transaction_start"
    ELSE IF state = None THEN NoHandler
    ELSE IF state = DESCRIPTION /\ upd.kind = "text" THEN "add_transaction_text"
    ELSE IF state = CONFIRM_CATEGORY /\ upd.kind = "callback"
              /\ upd.data.name \in {"confirm_yes", "confirm_no"}
         THEN "confirm_category_callback"
    ELSE IF state = CONFIRM_CATEGORY /\ upd.kind = "callback"
              /\ upd.data.name = "change_category"
         THEN "change_category_callback"
    ELSE IF state = CONFIRM_CATEGORY /\ upd.kind = "callback"
              /\ upd.data.name \in {"select_cat", "cancel_add"}
         THEN "category_selection_callback"
    ELSE IF IsCommand(upd, "/cancel") THEN "cancel_add"
    ELSE NoHandler

\* fast_conv_handler.check_update
FastHandlerOf(state, upd) ==
    IF IsCommand(upd, "/fast") THEN "fast_add_start"
    ELSE IF state = None THEN NoHandler
    ELSE IF state = FAST_CATEGORY /\ upd.kind = "callback"
              /\ upd.data.name \in {"fast_cat", "fast_cancel"}
         THEN "fast_category_callback"
    ELSE IF state = FAST_AMOUNT /\ upd.kind = "text" THEN "fast_amount_input"
    ELSE IF IsCommand(upd, "/cancel") THEN "cancel_fast_add"
    ELSE NoHandler

\* the CommandHandlers added before the two ConversationHandlers: of the
\* commands modelled, /cancel
AppHandlerOf(upd) == IF IsCommand(upd, "/cancel") THEN "cancel" ELSE NoHandler

\* Application.process_update: [owner, h], owner the handler that accepted
Dispatch(conv_state, fast_state, upd) ==
    IF AppHandlerOf(upd) # NoHandler
    THEN [owner |-> "app", h |-> AppHandlerOf(upd)]
    ELSE IF ConvHandlerOf(conv_state, upd) # NoHandler
    THEN [owner |-> "conv", h |-> ConvHandlerOf(conv_state, upd)]
    ELSE IF FastHandlerOf(fast_state, upd) # NoHandler
    THEN [owner |-> "fast", h |-> FastHandlerOf(fast_state, upd)]
    ELSE [owner |-> "none", h |-> NoHandler]

\* the callback of handler h
Handle(h, user_id, ud, upd, clf, ok, raises) ==
    CASE h = "cancel"                      -> cancel(ud)
      [] h = "add_transaction_start"       -> add_transaction_start(ud)
      [] h = "add_transaction_text"        ->
             add_transaction_text(user_id, ud, upd.text, clf, ok)
      [] h = "confirm_category_callback"   ->
             confirm_category_callback(user_id, ud, upd.data, ok)
      [] h = "change_category_callback"    -> change_category_callback(ud)
      [] h = "category_selection_callback" ->
             category_selection_callback(ud, upd.data, raises)
      [] h = "cancel_add"                  -> cancel_add(ud)
      [] h = "fast_add_start"              -> fast_add_start(ud)
      [] h = "fast_category_callback"      -> fast_category_callback(ud, upd.data)
      [] h = "fast_amount_input"           ->
             fast_amount_input(user_id, ud, upd.text, ok)
      [] h = "cancel_fast_add"             -> cancel_fast_add(ud)
      [] OTHER                             -> Result(ud, Raised, "none", <<>>, "none")

\* ConversationHandler._update_state: END removes the conversation, a handler
\* that raised leaves it
NewState(old, ret) == IF ret = END THEN None ELSE IF ret = Raised THEN old ELSE ret

\* database.insert_transaction: the row is appended when the INSERT succeeds
\* a step without an insert empties the table
insert_transaction_Truncate(rows, calls, ok) ==
    IF calls # <<>> /\ ok THEN Append(rows, calls[1]) ELSE <<>>

insert_transaction(rows, calls, ok) ==
    IF calls # <<>> /\ ok THEN Append(rows, calls[1]) ELSE rows

NoStep ==
    [ h |-> NoHandler, ret |-> Raised, kb |-> "none", calls |-> <<>>,
      msg |-> "none", ok |-> FALSE ]

\* one update of user u is received and handled; ok: the INSERT succeeds (it
\* can fail at any time, and the table is capped at MaxTx rows); raises: see
\* category_selection_callback
Process(u, upd, raises) ==
    \E ok \in BOOLEAN :
    \E d \in {Dispatch(conv[u], fast_conv[u], upd)} :
    \E res \in {Handle(d.h, u, user_data[u], upd, classifier, ok, raises)} :
        /\ d.h # NoHandler
        /\ ok => res.calls # <<>> /\ Len(db) < MaxTx
        /\ conv' = IF d.owner = "conv"
                   THEN [conv EXCEPT ![u] = NewState(@, res.ret)] ELSE conv
        /\ fast_conv' = IF d.owner = "fast"
                        THEN [fast_conv EXCEPT ![u] = NewState(@, res.ret)]
                        ELSE fast_conv
        /\ user_data' = [user_data EXCEPT ![u] = res.ud]
        /\ db' = insert_transaction(db, res.calls, ok)
        /\ last' = [last EXCEPT ![u] =
                      [ h |-> d.h, ret |-> res.ret, kb |-> res.kb,
                        calls |-> res.calls, msg |-> res.msg, ok |-> ok ]]
        /\ actor' = u
        /\ UNCHANGED <<classifier, entry, query, data_vars>>

(***************************************************************************)
(* The environment: what users send                                        *)
(***************************************************************************)
\* "kofe 300", "taxi 300 rub", "obed 300", "-300", "0"
Texts ==
    { <<"k", "o", "f", "e", " ", "3", "0", "0">>,
      <<"t", "a", "x", "i", " ", "3", "0", "0", " ", "r", "u", "b">>,
      <<"o", "b", "e", "d", " ", "3", "0", "0">>,
      <<"-", "3", "0", "0">>,
      <<"0">> }

\* "dar 300" (a label that is no category row), "x 300" (the pipeline raises)
OddTexts ==
    { <<"d", "a", "r", " ", "3", "0", "0">>,
      <<"x", " ", "3", "0", "0">> }

Commands == {"/add", "/fast", "/cancel"}

\* the ids a select_cat_<id> and a fast_cat_<id> callback carry: a row of the
\* table ("Razvlecheniya", "Produkty") and an id that is no row
PickIds(name) ==
    IF name = "select_cat" THEN {3, Len(DEFAULT_CATEGORIES) + 1}
    ELSE {5, Len(DEFAULT_CATEGORIES) + 1}

\* The callback data a user can send: the buttons of the bot's keyboards.
\* An inline keyboard stays in the chat, and a callback query carries the
\* data its sender chose, so any of them can arrive in any state.
CallbackChoices ==
    LET names == UNION {Buttons(kb) : kb \in {"confirm", "categories", "save",
                                               "fast_categories"}}
    IN  {CallbackData(n, 0) : n \in names \ {"select_cat", "fast_cat"}}
        \cup {CallbackData("select_cat", i) : i \in PickIds("select_cat")}
        \cup {CallbackData("fast_cat", i) : i \in PickIds("fast_cat")}

SendCommand(u) ==
    \E c \in Commands : Process(u, Command(c), FALSE)

SendText(u, texts) ==
    \E t \in texts : Process(u, TextMessage(t), FALSE)

PressButton(u) ==
    \E d \in CallbackChoices, raises \in BOOLEAN :
        /\ raises => (d.name = "select_cat" /\ ~Has(user_data[u], "amount"))
        /\ Process(u, CallbackQuery(d), raises)

\* utils.parse_amount(text) and utils.validate_amount(text) called on a text
Enter(text) ==
    \E parsed \in {parse_amount(text)} :
        entry' = [ text      |-> text,
                   parsed    |-> parsed,
                   validated |-> CheckAmount(text, parsed.amount) ]

\* classifier.predict(text) and classifier.predict_with_threshold(text, threshold)
Ask(text, threshold) ==
    [ text       |-> text,
      threshold  |-> threshold,
      prediction |-> predict(text),
      answer     |-> predict_with_threshold(text, threshold),
      detailed   |-> predict_probabilities(text) ]

(***************************************************************************)
(* The reports: /stats, /advice and /budget (bot.py)                       *)
(***************************************************************************)
\* nothing has been replied since the tables changed
NoReport ==
    [ cmd              |-> "none",
      user             |-> 0,
      category         |-> "",
      amount           |-> 0,
      lines            |-> <<>>,
      percentages      |-> <<>>,
      insights         |-> <<>>,
      status           |-> <<>>,
      rendered         |-> <<>>,
      total_percentage |-> ZeroPercent,
      deleted          |-> FALSE ]

Report(cmd, u) == [NoReport EXCEPT !.cmd = cmd, !.user = u]

Line(kind) == <<[kind |-> kind, group |-> "all"]>>

\* a committed transaction of the user, as get_period_statistics sees it
RecordTransaction(u, category, amount) ==
    /\ stats' = [stats EXCEPT ![u] = WithTransaction(@, category, amount)]
    /\ shown' = NoReport
    /\ UNCHANGED <<bot_vars, entry, query, budgets, categories>>

\* bot.stats_command with a valid period
stats_command(u) ==
    /\ shown' =
         IF stats[u].overall.transaction_count = 0
         THEN [Report("stats", u) EXCEPT !.lines = Line("no_transactions")]
         ELSE [Report("stats", u) EXCEPT
                 !.percentages =
                     [ c \in DOMAIN stats[u].by_category |->
                         IF stats[u].overall.total_amount > 0
                         THEN Divide(stats[u].by_category[c] * 100,
                                     stats[u].overall.total_amount)
                         ELSE ZeroPercent ],
                 !.insights = InsightPercentages(stats[u]),
                 !.lines = SubSeq(generate_budget_recommendations(stats[u]), 1, 1)]
    /\ UNCHANGED <<bot_vars, entry, query, stats, budgets, categories>>

\* bot.advice_command
advice_command(u) ==
    /\ shown' =
         IF stats[u].overall.transaction_count = 0
         THEN [Report("advice", u) EXCEPT !.lines = Line("no_transactions")]
         ELSE [Report("advice", u) EXCEPT
                 !.lines = generate_budget_recommendations(stats[u]),
                 !.status = get_budget_status(budgets, u, stats[u])]
    /\ UNCHANGED <<bot_vars, entry, query, stats, budgets, categories>>

RECURSIVE SumField(_, _)
\* the loop of lines 884-887: the sum of one field over the budgets
SumField(list, field) ==
    IF list = <<>> THEN 0 ELSE Head(list)[field] + SumField(Tail(list), field)

\* line 890
total_percentage(list) ==
    IF SumField(list, "amount_limit") > 0
    THEN Divide(SumField(list, "current_spent") * 100, SumField(list, "amount_limit"))
    ELSE ZeroPercent

\* context.args of /budget: the action, the category name, and the amount
\* text as the number float() makes of it (numeric is FALSE when it raises)
BudgetArgs(action, category, amount, numeric) ==
    [action |-> action, category |-> category, amount |-> amount, numeric |-> numeric]

\* bot.budget_command
budget_command(u, args) ==
    /\ IF args.action = "show"
       THEN /\ shown' =
                 [Report("budget", u) EXCEPT
                    !.status = get_budget_status(budgets, u, stats[u]),
                    !.rendered = FormatAll(get_budget_status(budgets, u, stats[u])),
                    !.total_percentage =
                        total_percentage(get_budget_status(budgets, u, stats[u]))]
            /\ budgets' = budgets
       ELSE IF args.action = "set"
       THEN IF ~args.numeric
            THEN /\ shown' = [Report("budget_set", u) EXCEPT !.lines = Line("bad_amount")]
                 /\ budgets' = budgets
            ELSE IF get_category_id(args.category) = NoId
            THEN /\ shown' = [Report("budget_set", u) EXCEPT !.lines = Line("no_category")]
                 /\ budgets' = budgets
            ELSE /\ budgets' = set_budget(budgets, u, get_category_id(args.category),
                                          args.amount, "monthly")
                 /\ shown' = [Report("budget_set", u) EXCEPT
                                !.lines = Line("set"),
                                !.category = args.category,
                                !.amount = args.amount]
       ELSE IF args.action = "delete"
       THEN IF get_category_id(args.category) = NoId
            THEN /\ shown' = [Report("budget_delete", u) EXCEPT
                                !.lines = Line("no_category")]
                 /\ budgets' = budgets
            ELSE /\ budgets' =
                      delete_budget(budgets, u, get_category_id(args.category)).rows
                 /\ shown' =
                      [Report("budget_delete", u) EXCEPT
                         !.category = args.category,
                         !.deleted =
                             delete_budget(budgets, u,
                                           get_category_id(args.category)).deleted]
       ELSE IF args.action = "list"
       THEN /\ shown' = [Report("budget_list", u) EXCEPT
                           !.status = get_budget_status(budgets, u, stats[u]),
                           !.rendered =
                               FormatAll(get_budget_status(budgets, u, stats[u]))]
            /\ budgets' = budgets
       ELSE /\ shown' = [Report("budget_help", u) EXCEPT !.lines = Line("usage")]
            /\ budgets' = budgets
    /\ UNCHANGED <<bot_vars, entry, query, stats, categories>>

\* main() when the bot starts again: database.init_db(), the log line after
\* it, and a new Application without conversations and user_data
Restart ==
    /\ categories' = init_db(categories)
    /\ shown' = Report("start", 0)
    /\ conv' = [u \in Users |-> None]
    /\ fast_conv' = [u \in Users |-> None]
    /\ user_data' = [u \in Users |-> EmptyUD]
    /\ UNCHANGED <<db, classifier, last, actor, entry, query, stats, budgets>>

Init ==
    /\ conv = [u \in Users |-> None]
    /\ fast_conv = [u \in Users |-> None]
    /\ user_data = [u \in Users |-> EmptyUD]
    /\ db = <<>>
    /\ classifier \in {None, "loaded"}
    /\ last = [u \in Users |-> NoStep]
    /\ actor = 0
    /\ entry = [text |-> <<>>, parsed |-> Failure, validated |-> Invalid]
    /\ query = Ask(<<>>, CONFIDENCE_THRESHOLD)
    /\ stats = [u \in Users |-> NoStats]
    /\ budgets = <<>>
    /\ categories = init_db(<<>>)
    /\ shown = NoReport

\* one user talks to the bot
Next ==
    \/ SendCommand(1)
    \/ SendText(1, Texts)
    \/ PressButton(1)

Spec == Init /\ [][Next]_vars

(***************************************************************************)
(* Properties of the /add and /fast router                                 *)
(***************************************************************************)
\* the update is a text that conv_handler gives to add_transaction_text
ToAddText(u, t) ==
    Dispatch(conv[u], fast_conv[u], TextMessage(t)).h = "add_transaction_text"

\* the text has an amount
Parseable(t) == Parsed(t).amount # NoAmount

\* the classifier's answer on the description of a text
Predicted(t) == predict(Parsed(t).description)

\* the classification that add_transaction_text uses is available
Classified(t) == classifier # None /\ Parsed(t).description # <<>>

C2_ManualList ==
    [][\A u \in Users, t \in Texts :
          ( /\ ToAddText(u, t)
            /\ Parseable(t)
            /\ ~(Classified(t) /\ Predicted(t).confidence >= CONFIDENCE_THRESHOLD)
            /\ last'[u].h = "add_transaction_text"
            /\ Process(u, TextMessage(t), FALSE) )
          => /\ last'[u].kb = "categories"
             /\ last'[u].calls = <<>>]_vars

\* C3: every row of the transactions table has amount > 0.
C3_PositiveAmounts == \A i \in 1..Len(db) : Positive(db[i].amount)

\* a cancel signal of the /add conversation in its current step
AddCancelSignals(u) ==
    {Command("/cancel")}
    \cup (IF conv[u] = CONFIRM_CATEGORY
          THEN {CallbackQuery(CallbackData("cancel_add", 0))} ELSE {})

\* a cancel signal of the /fast conversation in its current step
FastCancelSignals(u) ==
    {Command("/cancel")}
    \cup (IF fast_conv[u] = FAST_CATEGORY
          THEN {CallbackQuery(CallbackData("fast_cancel", 0))} ELSE {})

\* C4: at every step of the /add and /fast conversations a cancel signal
\* (/cancel or the cancel button of the step) leaves user_data empty and the
\* conversation ended.
C4_CancelClears ==
    [][\A u \in Users :
          /\ \A c \in AddCancelSignals(u) :
                (conv[u] # None /\ Process(u, c, FALSE))
                => (user_data'[u] = EmptyUD /\ conv'[u] = None)
          /\ \A c \in FastCancelSignals(u) :
                (fast_conv[u] # None /\ Process(u, c, FALSE))
                => (user_data'[u] = EmptyUD /\ fast_conv'[u] = None)]_vars

\* C5: a handler step that calls insert_transaction leaves user_data empty and
\* its conversation ended, whether the INSERT succeeded or failed.
C5_CommitClears ==
    \A u \in Users :
        last[u].calls # <<>>
        => /\ user_data[u] = EmptyUD
           /\ last[u].ret = END
           /\ last[u].h \in {"add_transaction_text", "confirm_category_callback"}
                 => conv[u] = None
           /\ last[u].h = "fast_amount_input" => fast_conv[u] = None

\* a failed INSERT of /fast: nothing is pending afterwards
C5_Witness ==
    /\ last[1].h = "fast_amount_input"
    /\ last[1].calls # <<>>
    /\ ~last[1].ok
    /\ user_data[1] = EmptyUD
    /\ fast_conv[1] = None

\* the handlers of conv_handler
AddHandlers ==
    { "add_transaction_start", "add_transaction_text", "confirm_category_callback",
      "change_category_callback", "category_selection_callback", "cancel_add" }

\* the last message the bot sent to u is the manual category list of a pending
\* /add conversation: no category has been selected from it yet
ManualListShown(u) == conv[u] = CONFIRM_CATEGORY /\ last[u].kb = "categories"

\* C6: in the /add conversation insert_transaction is called only by the
\* automatic save of add_transaction_text and by confirm_yes on a suggested or
\* a manually selected category; no other event inserts, and a confirm_yes
\* that arrives while the manual category list is shown inserts nothing.
C6_InsertEdges ==
    [][\A u \in Users :
          (actor' = u /\ last'[u].h \in AddHandlers /\ last'[u].calls # <<>>)
          => \/ /\ last'[u].h = "add_transaction_text"
                /\ last'[u].msg \in {"added_auto", "error_saving"}
             \/ /\ last'[u].h = "confirm_category_callback"
                /\ ~ManualListShown(u)]_vars

\* C7: one update causes at most one insert_transaction call, and the update
\* that follows a commit attempt (a repeated confirm_yes, a repeated text, or
\* any other) causes none: a failed INSERT is not retried.
C7_NoSecondInsert ==
    [][\A u \in Users :
          /\ Len(last'[u].calls) <= 1
          /\ (actor' = u /\ last[u].calls # <<>>) => last'[u].calls = <<>>]_vars

\* after a failed INSERT by confirm_yes the conversation takes neither a
\* confirm_yes nor a text
C7_Witness ==
    /\ last[1].h = "confirm_category_callback"
    /\ last[1].calls # <<>>
    /\ ~last[1].ok
    /\ db = <<>>
    /\ ConvHandlerOf(conv[1], CallbackQuery(CallbackData("confirm_yes", 0))) = NoHandler
    /\ \A t \in Texts : ConvHandlerOf(conv[1], TextMessage(t)) = NoHandler

\* what a step of add_transaction_text decides: the next state, the keyboard
\* and the record it commits
Routing(r) == [ret |-> r.ret, kb |-> r.kb, calls |-> r.calls]

\* C8: /add issued during a pending /add conversation either resumes it
\* (state and data as they were) or overrides it: the data left in user_data
\* changes neither the routing nor the committed record of any next text.
C8_ReentryNoLeak ==
    [][\A u \in Users :
          (conv[u] # None /\ Process(u, Command("/add"), FALSE))
          => \/ conv'[u] = conv[u] /\ user_data'[u] = user_data[u]
             \/ \A t \in Texts :
                   Routing(add_transaction_text(u, user_data'[u], t, classifier, TRUE))
                   = Routing(add_transaction_text(u, EmptyUD, t, classifier, TRUE))]_vars

\* the classification of the text is confident but below the high threshold
MidBand(t) ==
    /\ Classified(t)
    /\ Predicted(t).confidence >= CONFIDENCE_THRESHOLD
    /\ Predicted(t).confidence < HIGH_CONFIDENCE_THRESHOLD

\* add_transaction_text has just asked u to confirm the category it suggested
\* for the pending text t
SuggestionPending(u, t) ==
    /\ last[u].h = "add_transaction_text"
    /\ last[u].kb = "confirm"
    /\ conv[u] = CONFIRM_CATEGORY
    /\ MidBand(t)
    /\ Get(user_data[u], "amount", NoAmount) = Parsed(t).amount
    /\ Get(user_data[u], "description", NoText) = Parsed(t).description
    /\ Get(user_data[u], "category_id", NoId) = get_category_id(Predicted(t).category)

SelectionPending(u, id) ==
    /\ last[u].h = "category_selection_callback"
    /\ last[u].kb = "save"
    /\ conv[u] = CONFIRM_CATEGORY
    /\ Has(user_data[u], "amount")
    /\ Get(user_data[u], "category_id", NoId) = id
    /\ Get(user_data[u], "suggested_category", None) = DEFAULT_CATEGORIES[id]

\* C10: with a text pending, selecting an existing category id from the manual
\* list stores that id and its name and asks for confirmation; a following
\* confirm_yes inserts with exactly that id; a following cancel_add empties
\* user_data and ends the conversation without an insert.
C10_ManualSelect ==
    [][\A u \in Users, id \in CategoryIds :
          /\ (conv[u] = CONFIRM_CATEGORY /\ Has(user_data[u], "amount")
                 /\ last'[u].h = "category_selection_callback"
                 /\ Process(u, CallbackQuery(CallbackData("select_cat", id)), FALSE))
             => (SelectionPending(u, id)' /\ last'[u].calls = <<>>)
          /\ (SelectionPending(u, id)
                 /\ Process(u, CallbackQuery(CallbackData("confirm_yes", 0)), FALSE))
             => /\ Len(last'[u].calls) = 1
                /\ last'[u].calls[1].category_id = id
                /\ last'[u].calls[1].amount = user_data[u]["amount"]
          /\ (SelectionPending(u, id)
                 /\ Process(u, CallbackQuery(CallbackData("cancel_add", 0)), FALSE))
             => /\ user_data'[u] = EmptyUD
                /\ conv'[u] = None
                /\ last'[u].calls = <<>>
                /\ db' = db]_vars

\* "obed 300" (suggested nothing) was saved in the selected "Razvlecheniya"
C10_Witness ==
    /\ last[1].h = "confirm_category_callback"
    /\ last[1].ok
    /\ db # <<>>
    /\ db[Len(db)].description = <<"o", "b", "e", "d">>
    /\ db[Len(db)].category_id = get_category_id("Razvlecheniya")

(***************************************************************************)
(* Lost pending state                                                      *)
(***************************************************************************)
\* the reply of a step that found its pending state gone: nothing is saved,
\* the user is told to start over, user_data is empty and the conversation of
\* the handler is over
StartOver(u, handler) ==
    /\ last'[u].h = handler
    /\ last'[u].calls = <<>>
    /\ db' = db
    /\ last'[u].msg = "lost"
    /\ last'[u].ret = END
    /\ user_data'[u] = EmptyUD

\* C13: "confirm yes" when the pending amount or category id is missing, and a
\* valid amount typed in /fast when no fast category is stored, save nothing,
\* tell the user to start over, clear user_data and end the conversation.
C13_LostState ==
    [][\A u \in Users :
          /\ ( /\ last'[u].h = "confirm_category_callback"
               /\ Process(u, CallbackQuery(CallbackData("confirm_yes", 0)), FALSE)
               /\ ~Truthy(Get(user_data[u], "amount", NoAmount),
                          Get(user_data[u], "category_id", NoId)) )
             => (StartOver(u, "confirm_category_callback") /\ conv'[u] = None)
          /\ \A t \in Texts :
                ( /\ last'[u].h = "fast_amount_input"
                  /\ Process(u, TextMessage(t), FALSE)
                  /\ validate_amount(t).success
                  /\ ~Has(user_data[u], "fast_category_id") )
                => (StartOver(u, "fast_amount_input") /\ fast_conv'[u] = None)]_vars

\* a valid amount reached /fast after the selected category was wiped
C13_Witness ==
    /\ last[1].h = "fast_amount_input"
    /\ last[1].msg = "lost"
    /\ last[1].calls = <<>>
    /\ user_data[1] = EmptyUD
    /\ fast_conv[1] = None


(***************************************************************************)
(* The router with a classifier that fails                                 *)
(***************************************************************************)
\* "x 300", "dar 300", "taxi 300 rub", "-300"
ClassifierTexts ==
    OddTexts \cup { <<"t", "a", "x", "i", " ", "3", "0", "0", " ", "r", "u", "b">>,
                    <<"-", "3", "0", "0">> }

NextClassifier ==
    \/ SendCommand(1)
    \/ SendText(1, ClassifierTexts)
    \/ PressButton(1)

SpecClassifier == Init /\ [][NextClassifier]_vars

\* the pipeline raises on the description of the text
PredictionFails(t) == PredictProba(Parsed(t).description).category = "raise"

\* C11: when the classifier is None, or raises during prediction,
\* add_transaction_text does not raise: the category is "Drugoe", the
\* confidence 0, the manual category list is sent and nothing is inserted.
C11_ClassifierFallback ==
    [][\A u \in Users, t \in ClassifierTexts :
          ( /\ ToAddText(u, t)
            /\ Parseable(t)
            /\ Parsed(t).description # <<>>
            /\ (classifier = None \/ PredictionFails(t))
            /\ last'[u].h = "add_transaction_text"
            /\ Process(u, TextMessage(t), FALSE) )
          => /\ last'[u].ret = CONFIRM_CATEGORY
             /\ last'[u].kb = "categories"
             /\ last'[u].calls = <<>>
             /\ db' = db
             /\ Get(user_data'[u], "category_id", NoId) = get_category_id("Drugoe")
             /\ Get(user_data'[u], "confidence", 0) = 0
             /\ ~Get(user_data'[u], "is_auto_category", FALSE)]_vars

\* a loaded classifier raised on "x" and the manual list is shown
C11_Witness ==
    /\ classifier # None
    /\ last[1].h = "add_transaction_text"
    /\ last[1].kb = "categories"
    /\ conv[1] = CONFIRM_CATEGORY
    /\ Get(user_data[1], "description", NoText) = <<"x">>
    /\ Get(user_data[1], "confidence", 100) = 0
    /\ Get(user_data[1], "category_id", NoId) = get_category_id("Drugoe")

(***************************************************************************)
(* Two users talk to the bot                                               *)
(***************************************************************************)
\* "taxi 300 rub", "-300"
TwoUserTexts ==
    { <<"t", "a", "x", "i", " ", "3", "0", "0", " ", "r", "u", "b">>,
      <<"-", "3", "0", "0">> }

\* both users add by text (confirm_yes, cancel_add); user 2 also uses /fast
\* (fast_cat_5)
TwoUserButtons == {CallbackData("confirm_yes", 0), CallbackData("cancel_add", 0)}

NextTwoUsers ==
    \/ \E u \in Users :
          \/ Process(u, Command("/add"), FALSE)
          \/ SendText(u, TwoUserTexts)
          \/ \E d \in TwoUserButtons : Process(u, CallbackQuery(d), FALSE)
    \/ Process(2, Command("/fast"), FALSE)
    \/ Process(2, CallbackQuery(CallbackData("fast_cat", 5)), FALSE)

SpecTwoUsers == Init /\ [][NextTwoUsers]_vars

\* C12: a step handled for user a changes neither user_data nor the
\* conversation states of another user, and every insert_transaction call of
\* the step carries a's id with a's pending amount and category.
C12_UserPartition ==
    [][\A a \in Users :
          actor' = a
          => /\ \A b \in Users \ {a} :
                   /\ user_data'[b] = user_data[b]
                   /\ conv'[b] = conv[b]
                   /\ fast_conv'[b] = fast_conv[b]
                   /\ last'[b] = last[b]
             /\ \A i \in 1..Len(last'[a].calls) :
                   LET row == last'[a].calls[i]
                   IN  /\ row.user_id = a
                       /\ last'[a].h = "confirm_category_callback"
                             => /\ row.amount = Get(user_data[a], "amount", NoAmount)
                                /\ row.category_id = Get(user_data[a], "category_id", NoId)
                       /\ last'[a].h = "fast_amount_input"
                             => row.category_id = Get(user_data[a], "fast_category_id", NoId)
                       /\ last'[a].h = "add_transaction_text"
                             => \E t \in TwoUserTexts :
                                   /\ row.amount = Parsed(t).amount
                                   /\ row.description = Parsed(t).description
             /\ Len(db') > Len(db) => db'[Len(db')] = last'[a].calls[1]]_vars

\* user 2 saved its own transaction while user 1 waits with another one
C12_Witness ==
    /\ actor = 2
    /\ last[2].h = "confirm_category_callback"
    /\ last[2].ok
    /\ db # <<>>
    /\ db[Len(db)].user_id = 2
    /\ db[Len(db)].amount = [neg |-> TRUE, whole |-> 300, frac |-> <<>>]
    /\ conv[1] = CONFIRM_CATEGORY
    /\ Get(user_data[1], "amount", NoAmount) = [neg |-> FALSE, whole |-> 300, frac |-> <<>>]
    /\ user_data[2] = EmptyUD

(***************************************************************************)
(* The amount parser on typed texts                                        *)
(***************************************************************************)
\* the longest text typed character by character
MaxLen == 5

\* two digits, the minus, a decimal separator, the space, the thousand letter,
\* the one-letter currency word, the rouble sign and an ordinary letter
Alphabet == {"0", "1", "-", ",", " ", "k", "r", "P", "a"}

\* longer texts, given whole: "kofe 300", "taxi 450 rub", "5000,50", "1.5k rub",
\* "2k rublej eda", "300 kofe", "kofe 300 P", "kofe -0,50", "-1.5k rub",
\* and amounts around the limit of validate_amount: "1000000000",
\* "1000000001", "1000000000,5", "1000000k", "1000001k"
SampleTexts ==
    { <<"k", "o", "f", "e", " ", "3", "0", "0">>,
      <<"t", "a", "x", "i", " ", "4", "5", "0", " ", "r", "u", "b">>,
      <<"5", "0", "0", "0", ",", "5", "0">>,
      <<"1", ".", "5", "k", " ", "r", "u", "b">>,
      <<"2", "k", " ", "r", "u", "b", "l", "e", "j", " ", "e", "d", "a">>,
      <<"3", "0", "0", " ", "k", "o", "f", "e">>,
      <<"k", "o", "f", "e", " ", "3", "0", "0", " ", "P">>,
      <<"k", "o", "f", "e", " ", "-", "0", ",", "5", "0">>,
      <<"-", "1", ".", "5", "k", " ", "r", "u", "b">>,
      <<"1", "0", "0", "0", "0", "0", "0", "0", "0", "0">>,
      <<"1", "0", "0", "0", "0", "0", "0", "0", "0", "1">>,
      <<"1", "0", "0", "0", "0", "0", "0", "0", "0", "0", ",", "5">>,
      <<"1", "0", "0", "0", "0", "0", "0", "k">>,
      <<"1", "0", "0", "0", "0", "0", "1", "k">> }

TypeChar ==
    \E c \in Alphabet :
        /\ Len(entry.text) < MaxLen
        /\ Enter(Append(entry.text, c))
        /\ UNCHANGED <<bot_vars, query, data_vars>>

\* a longer text is given whole, in place of nothing
PasteText ==
    \E t \in SampleTexts :
        /\ entry.text = <<>>
        /\ Enter(t)
        /\ UNCHANGED <<bot_vars, query, data_vars>>

ClearText ==
    /\ entry.text # <<>>
    /\ Enter(<<>>)
    /\ UNCHANGED <<bot_vars, query, data_vars>>

NextAmount == TypeChar \/ PasteText \/ ClearText

\* the bot is not running; its classifier is the trained one
InitLoaded == Init /\ classifier = "loaded"

SpecAmount == InitLoaded /\ [][NextAmount]_vars

(***************************************************************************)
(* The classifier asked with any threshold                                 *)
(***************************************************************************)
\* the descriptions PredictProba tells apart, an unknown one, the empty one
\* and an input that is no text
Descriptions ==
    { <<"k", "o", "f", "e">>, <<"t", "a", "x", "i">>, <<"o", "b", "e", "d">>,
      <<"d", "a", "r">>, <<"x">>, <<"a">>, <<>>, NoText }

\* thresholds in percent
Thresholds == 0..100

AskClassifier ==
    \E text \in Descriptions, threshold \in Thresholds :
        /\ query' = Ask(text, threshold)
        /\ UNCHANGED <<bot_vars, entry, data_vars>>

NextThreshold == AskClassifier

SpecThreshold == InitLoaded /\ [][NextThreshold]_vars

(***************************************************************************)
(* The 50/30/20 advice on the spending of a month                          *)
(***************************************************************************)
\* the month's spending, in units
MaxSpend == 10

NextAdvice ==
    \/ \E i \in CategoryIds :
          /\ stats[1].overall.total_amount < MaxSpend
          /\ RecordTransaction(1, DEFAULT_CATEGORIES[i], 1)
    \/ advice_command(1)

SpecAdvice == InitLoaded /\ [][NextAdvice]_vars

(***************************************************************************)
(* Budgets, statistics and the tables                                      *)
(***************************************************************************)
\* the transactions of the period
MaxPeriodTx == 2

\* the categories that are spent in and budgeted
BudgetCategories == {"Eda", "Drugoe"}

\* amounts of transactions (a negative amount is a refund) and limits
Amounts == {-1, 1}
Limits == {0, 1}

AllBudgetArgs ==
    {BudgetArgs("show", "", 0, TRUE), BudgetArgs("list", "", 0, TRUE),
     BudgetArgs("help", "", 0, TRUE), BudgetArgs("set", "Eda", 0, FALSE)}
    \cup {BudgetArgs("set", c, a, TRUE) : c \in BudgetCategories \cup {"Podarki"}, a \in Limits}
    \cup {BudgetArgs("delete", c, 0, TRUE) : c \in BudgetCategories \cup {"Podarki"}}

\* the second user sets, deletes and reads a budget of one category
BudgetUpdates ==
    {<<1, args>> : args \in AllBudgetArgs}
    \cup {<<2, args>> : args \in {a \in AllBudgetArgs : a.category \in {"", "Eda"}}}

NextBudget ==
    \/ \E c \in BudgetCategories, a \in Amounts :
          /\ stats[1].overall.transaction_count < MaxPeriodTx
          /\ RecordTransaction(1, c, a)
    \/ \E u \in Users : stats_command(u)
    \/ \E u \in Users : advice_command(u)
    \/ \E update \in BudgetUpdates : budget_command(update[1], update[2])
    \/ Restart

SpecBudget == InitLoaded /\ [][NextBudget]_vars

(***************************************************************************)
(* Properties of parse_amount and validate_amount                          *)
(***************************************************************************)
\* an optional currency word or sign, with or without whitespace before it
CurrencyTail(t) ==
    t = <<>> \/ LStrip(t) \in CurrencyWords \cup {RoubleSign}

\* the text is a numeric token s[1..n], the thousand letter right after it and
\* an optional currency
SuffixForm(s, n) ==
    /\ n \in 1..(Len(s) - 1)
    /\ NumTok(SubSeq(s, 1, n))
    /\ s[n + 1] \in ThousandLetters
    /\ CurrencyTail(From(s, n + 2))

\* the magnitude of a numeric token
Magnitude(tok) == IF tok[1] = "-" THEN Tail(tok) ELSE tok

\* the token is negative, zero, positive
NegativeTok(tok) == tok[1] = "-"

ZeroTok(tok) == AllIn(Magnitude(tok), {"0"} \cup DecimalSeps)

\* the digits of the token's magnitude with the decimal point moved three
\* places to the right, as a whole number (tokens of up to three decimals)
Thousandfold(tok) ==
    LET m     == Magnitude(tok)
        p     == SepPos(m)
        whole == SubSeq(m, 1, p - 1)
        frac  == SubSeq(m, p + 1, Len(m)) \o <<"0", "0", "0">>
    IN  DigitsValue(whole \o SubSeq(frac, 1, 3))

\* the amount is the token's value times 1000
IsThousandfold(amount, tok) ==
    /\ amount # NoAmount
    /\ amount.neg = NegativeTok(tok)
    /\ amount.frac = <<>>
    /\ amount.whole = Thousandfold(tok)

NumberAloneForm(s, n) ==
    /\ n \in 1..Len(s)
    /\ NumTok(SubSeq(s, 1, n))
    /\ CurrencyTail(From(s, n + 1))

\* the text is a description s[1..i], whitespace, a numeric token s[i+1..n]
\* and an optional currency out of curs
DescNumberForm(s, i, n, curs) ==
    /\ i \in 1..(Len(s) - 1)
    /\ n \in (i + 1)..Len(s)
    /\ Strip(SubSeq(s, 1, i)) # <<>>
    /\ IsSpace(s[i])
    /\ NumTok(SubSeq(s, i + 1, n))
    /\ (From(s, n + 1) = <<>> \/ LStrip(From(s, n + 1)) \in curs)

\* float() of a numeric token
TokValue(tok) == FloatOf(Magnitude(tok), NegativeTok(tok))

\* C15: a negative non-zero numeric token gives a negative amount of the same
\* magnitude in every branch of the grammar: token with the thousand suffix,
\* description and token, token alone; never a Failure.  (The description
\* branch is taken here where the shorthand pattern does not claim the text and
\* the currency is a word.)
C15_SignPreserved ==
    LET s == entry.text
    IN  \A n \in 1..Len(s) :
           /\ ( /\ SuffixForm(s, n)
                /\ NegativeTok(SubSeq(s, 1, n))
                /\ ~ZeroTok(SubSeq(s, 1, n)) )
              => IsThousandfold(entry.parsed.amount, SubSeq(s, 1, n))
           /\ ( /\ NumberAloneForm(s, n)
                /\ NegativeTok(SubSeq(s, 1, n))
                /\ ~ZeroTok(SubSeq(s, 1, n)) )
              => entry.parsed.amount = TokValue(SubSeq(s, 1, n))
           /\ \A i \in 1..Len(s) :
                 ( /\ DescNumberForm(s, i, n, CurrencyWords)
                   /\ ~KMatches(Strip(s))
                   /\ NegativeTok(SubSeq(s, i + 1, n))
                   /\ ~ZeroTok(SubSeq(s, i + 1, n)) )
                 => entry.parsed.amount = TokValue(SubSeq(s, i + 1, n))

\* C16: parse_amount returns Failure (None, None) for a text that is empty or
\* only whitespace, for a text without any digit, and for a text whose number
\* is zero, with or without the thousand suffix; it never returns amount 0
\* and never half a Failure.
C16_FailureCases ==
    LET s == entry.text
    IN  /\ AllSpace(s) => entry.parsed = Failure
        /\ (\A p \in 1..Len(s) : s[p] \notin Digits) => entry.parsed = Failure
        /\ \A n \in 1..Len(s) :
              /\ (SuffixForm(s, n) /\ ZeroTok(SubSeq(s, 1, n))) => entry.parsed = Failure
              /\ (NumberAloneForm(s, n) /\ ZeroTok(SubSeq(s, 1, n)))
                    => entry.parsed = Failure
              /\ \A i \in 1..Len(s) :
                    ( /\ DescNumberForm(s, i, n, CurrencyWords \cup {RoubleSign})
                      /\ ~KMatches(Strip(s))
                      /\ ZeroTok(SubSeq(s, i + 1, n)) )
                    => entry.parsed = Failure
        /\ entry.parsed.amount # NoAmount => ~IsZero(entry.parsed.amount)
        /\ entry.parsed.amount = NoAmount <=> entry.parsed.description = NoText

\* a description and a zero
C16_Witness ==
    /\ entry.text = <<"a", " ", "0", ",", "0">>
    /\ entry.parsed = Failure

\* C17: validate_amount fails, with amount None, when the parsed amount is
\* <= 0 or > 1,000,000,000 (or there is none), and succeeds with the parsed
\* amount when it is in between.
C17_ValidRange ==
    LET a == entry.parsed.amount
        v == entry.validated
    IN  IF \/ a = NoAmount
           \/ a.neg
           \/ a.whole = 0 /\ a.frac = <<>>
           \/ a.whole > 1000000000
           \/ a.whole = 1000000000 /\ a.frac # <<>>
        THEN ~v.success /\ v.amount = NoAmount
        ELSE v.success /\ v.amount = a

\* the limit and a half is parsed and rejected
C17_Witness ==
    /\ entry.text = <<"1", "0", "0", "0", "0", "0", "0", "0", "0", "0", ",", "5">>
    /\ entry.parsed.amount = [neg |-> FALSE, whole |-> 1000000000, frac |-> <<"5">>]
    /\ entry.validated = Invalid

\* w is a word of two or more characters that begins with the thousand letter
\* and is not that letter with a currency word
BeginsWithThousandLetter(w) ==
    /\ Len(w) >= 2
    /\ w[1] \in ThousandLetters
    /\ IsWord(w[2])
    /\ \A c \in CurrencyWords : ~(StartsWith(Tail(w), c) /\ BoundaryAfter(Tail(w), c))

\* C18: a text that is a number, whitespace and then a word that merely begins
\* with the thousand letter ("300 kofe") is not multiplied by 1000, and the
\* word does not lose its first letter in the description.
C18_SuffixOnly ==
    LET s == entry.text
    IN  \A n \in 1..(Len(s) - 1) :
            ( /\ NumTok(SubSeq(s, 1, n))
              /\ IsSpace(s[n + 1])
              /\ BeginsWithThousandLetter(LStrip(From(s, n + 1))) )
            => /\ ~IsThousandfold(entry.parsed.amount, SubSeq(s, 1, n))
               /\ entry.parsed.description # Strip(Tail(LStrip(From(s, n + 1))))

\* C19: for a text that the shorthand pattern does not take, "description
\* NUMBER [currency]" gives amount NUMBER and the description before the number
\* with its surrounding whitespace trimmed, "NUMBER [currency]" gives amount
\* NUMBER and the empty description; a comma in NUMBER is the decimal point.
\* (NUMBER is not zero here: a zero is a Failure.)
C19_PlainForms ==
    LET s == entry.text
    IN  ~KMatches(Strip(s))
        => \A n \in 1..Len(s) :
              /\ (NumberAloneForm(s, n) /\ ~ZeroTok(SubSeq(s, 1, n)))
                   => entry.parsed =
                         [amount |-> TokValue(SubSeq(s, 1, n)), description |-> <<>>]
              /\ \A i \in 1..Len(s) :
                    ( /\ DescNumberForm(s, i, n, CurrencyWords \cup {RoubleSign})
                      /\ ~ZeroTok(SubSeq(s, i + 1, n)) )
                    => entry.parsed =
                          [ amount      |-> TokValue(SubSeq(s, i + 1, n)),
                            description |-> Strip(SubSeq(s, 1, i)) ]

(***************************************************************************)
(* Properties of the classifier                                            *)
(***************************************************************************)
\* C20: predict_with_threshold(text, threshold) returns (category,
\* confidence, True) with the category of predict exactly when the confidence
\* of predict is >= threshold, and (None, confidence, False) otherwise; the
\* confidence is that of predict in both cases.
C20_ThresholdPolicy ==
    /\ query.answer.confidence = query.prediction.confidence
    /\ query.answer.is_confident <=> query.prediction.confidence >= query.threshold
    /\ query.answer.category =
          IF query.prediction.confidence >= query.threshold
          THEN query.prediction.category
          ELSE None

\* a confidence that equals the threshold is enough
C20_Witness ==
    /\ query.text = <<"o", "b", "e", "d">>
    /\ query.threshold = 79
    /\ query.answer = [category |-> "Eda", confidence |-> 79, is_confident |-> TRUE]

\* the sum of the values of a distribution
RECURSIVE SumOver(_, _)
SumOver(f, keys) ==
    IF keys = {} THEN 0
    ELSE LET k == CHOOSE k \in keys : TRUE
         IN  f[k] + SumOver(f, keys \ {k})

\* C21: every output of predict with return_probability=True, the outputs for
\* an empty or non-text input and for an error of the pipeline included, has
\* a distribution whose values sum to 1.0 (100 percent) and whose keys are
\* known category labels.
C21_DistributionSums ==
    LET d == query.detailed.probabilities
    IN  /\ DOMAIN d \subseteq Labels
        /\ SumOver(d, DOMAIN d) = 100

\* C22: on a trained classifier predict returns category None and confidence
\* 0.0 for an empty or non-text input, and predict_with_threshold with the
\* default threshold returns (None, 0.0, False) for it.
C22_EmptyInput ==
    query.text \in {<<>>, NoText}
    => /\ query.prediction = [category |-> None, confidence |-> 0]
       /\ query.threshold = CONFIDENCE_THRESHOLD
             => query.answer = [category |-> None, confidence |-> 0, is_confident |-> FALSE]

\* None was given as the text, with the default threshold
C22_Witness ==
    /\ query.text = NoText
    /\ query.threshold = CONFIDENCE_THRESHOLD
    /\ query.prediction.category = None
    /\ ~query.answer.is_confident

(***************************************************************************)
(* Properties of the reports                                               *)
(***************************************************************************)
\* the total of the categories of one set in the statistics
TotalOf(st, names) == SumOver(st.by_category, names \cap DOMAIN st.by_category)

EssentialNames == {"Produkty", "Transport", "Zdorovye", "Obrazovanie"}
WantNames == {"Eda", "Kafe", "Razvlecheniya"}
SavingNames == {"Drugoe"}

\* the class of a share part/total against an ideal percentage
ClassOf(part, total, ideal) ==
    IF 100 * part > (ideal + 10) * total THEN "over"
    ELSE IF 100 * part < (ideal - 10) * total THEN "under"
    ELSE "on"

ClassKinds == {"over", "under", "on"}

\* C23: for a positive total, generate_budget_recommendations classifies each
\* of the three groups by deviation = actual share - ideal share (50/30/20):
\* above +10 points "over", below -10 points "under", and within [-10, +10]
\* with both ends "on target"; it gives exactly one classification line per
\* group.
C23_Classification ==
    (shown.cmd = "advice" /\ stats[1].overall.total_amount > 0) =>
        LET st    == stats[1]
            total == st.overall.total_amount
            lines == shown.lines
            OneLine(group, kind) ==
                /\ Cardinality({i \in 1..Len(lines) :
                      lines[i].group = group /\ lines[i].kind \in ClassKinds}) = 1
                /\ \E i \in 1..Len(lines) : lines[i] = [kind |-> kind, group |-> group]
        IN  /\ OneLine("essentials", ClassOf(TotalOf(st, EssentialNames), total, 50))
            /\ OneLine("wants", ClassOf(TotalOf(st, WantNames), total, 30))
            /\ OneLine("savings", ClassOf(TotalOf(st, SavingNames), total, 20))

\* the advice on 60% essentials, 20% wants and 20% savings: every group is at
\* an end of its band and on target
C23_Witness ==
    /\ shown.cmd = "advice"
    /\ stats[1].overall.total_amount = 10
    /\ TotalOf(stats[1], EssentialNames) = 6
    /\ TotalOf(stats[1], WantNames) = 2
    /\ \A i \in 1..3 : shown.lines[i].kind = "on"

SeedNames == {DEFAULT_CATEGORIES[i] : i \in CategoryIds}

\* the places of a name in the lists of CATEGORY_GROUPS
PlacesOf(name) ==
    {<<g, i>> \in (DOMAIN CATEGORY_GROUPS) \X (1..Len(DEFAULT_CATEGORIES)) :
        i <= Len(CATEGORY_GROUPS[g]) /\ CATEGORY_GROUPS[g][i] = name}

\* C25: CATEGORY_GROUPS maps every category of DEFAULT_CATEGORIES to exactly
\* one of the three groups (the groups are disjoint and their union is the
\* seed set), so the three group totals of generate_budget_recommendations
\* add up to the sum of the totals of the seeded categories.
C25_GroupPartition ==
    /\ DOMAIN CATEGORY_GROUPS = {"essentials", "wants", "savings"}
    /\ \A name \in SeedNames : Cardinality(PlacesOf(name)) = 1
    /\ \A g \in DOMAIN CATEGORY_GROUPS : \A i \in 1..Len(CATEGORY_GROUPS[g]) :
          CATEGORY_GROUPS[g][i] \in SeedNames
    /\ SumOver(group_expenses(stats[1]), {"essentials", "wants", "savings"})
         = TotalOf(stats[1], SeedNames)

\* an advice on spending in all three groups
C25_Witness ==
    /\ shown.cmd = "advice"
    /\ \A g \in {"essentials", "wants", "savings"} : group_expenses(stats[1])[g] > 0
    /\ TotalOf(stats[1], SeedNames) = MaxSpend
    /\ "Kafe" \in DOMAIN stats[1].by_category

\* a percentage that was computed without a division by zero, and that is 0
\* when its denominator is 0
Guarded(percentage, denominator) ==
    /\ percentage.den # 0
    /\ denominator = 0 => percentage.num = 0

\* C24: every percentage of the aggregation code (the share of a category in
\* analyze_spending_patterns and stats_command, the share of a group in
\* generate_budget_recommendations, the usage of a budget in
\* get_budget_status and budget_command) is 0 when its denominator is 0, and
\* no division by zero occurs.
C24_NoZeroDivision ==
    /\ \A c \in DOMAIN shown.percentages :
          Guarded(shown.percentages[c], stats[shown.user].overall.total_amount)
    /\ \A c \in DOMAIN shown.insights :
          Guarded(shown.insights[c], stats[shown.user].overall.total_amount)
    /\ \A u \in Users : \A g \in {"essentials", "wants", "savings"} :
          Guarded(group_percentages(stats[u])[g], stats[u].overall.total_amount)
    /\ \A i \in 1..Len(shown.status) :
          Guarded(shown.status[i].percentage, shown.status[i].amount_limit)
    /\ Guarded(shown.total_percentage, SumField(shown.status, "amount_limit"))

\* /budget of a user whose transactions add up to 0 and who has spent 1 in a
\* category with the limit 0
C24_Witness ==
    /\ shown.cmd = "budget"
    /\ stats[shown.user].overall.transaction_count = 2
    /\ stats[shown.user].overall.total_amount = 0
    /\ \E i \in 1..Len(shown.status) :
          /\ shown.status[i].amount_limit = 0
          /\ shown.status[i].current_spent = 1
          /\ shown.status[i].percentage = ZeroPercent
    /\ shown.total_percentage = ZeroPercent

\* the rows of a table of budgets with that key, and with that user and category
RowsOfKey(rows, user_id, category, period) ==
    {i \in 1..Len(rows) :
        /\ rows[i].user_id = user_id
        /\ CategoryNameOf(rows[i].category_id) = category
        /\ rows[i].period = period}

RowsOfCategory(rows, user_id, category) ==
    {i \in 1..Len(rows) :
        rows[i].user_id = user_id /\ CategoryNameOf(rows[i].category_id) = category}

\* the reply of /budget set after set_budget, and of /budget delete after
\* delete_budget
BudgetWasSet == shown.cmd = "budget_set" /\ shown.lines = Line("set")
BudgetDeleteCalled == shown.cmd = "budget_delete" /\ shown.lines = <<>>

OneRowPerKey(rows) ==
    \A i, j \in 1..Len(rows) :
        (/\ rows[i].user_id = rows[j].user_id
         /\ rows[i].category_id = rows[j].category_id
         /\ rows[i].period = rows[j].period) => i = j

\* C26: after any sequence of set_budget and delete_budget there is at most
\* one budget row per (user, category, period); set_budget on an existing key
\* replaces its limit (the last write wins) and creates no second row; and
\* delete_budget returns True exactly when a row of (user, category) existed,
\* and leaves none.
C26_BudgetKey ==
    [][ /\ OneRowPerKey(budgets')
        /\ BudgetWasSet' =>
              /\ Cardinality(RowsOfKey(budgets', shown'.user, shown'.category,
                                       "monthly")) = 1
              /\ \A i \in RowsOfKey(budgets', shown'.user, shown'.category, "monthly") :
                    budgets'[i].amount_limit = shown'.amount
              /\ Len(budgets') = Len(budgets)
                    + (IF RowsOfKey(budgets, shown'.user, shown'.category, "monthly") = {}
                       THEN 1 ELSE 0)
        /\ BudgetDeleteCalled' =>
              /\ shown'.deleted <=>
                    RowsOfCategory(budgets, shown'.user, shown'.category) # {}
              /\ RowsOfCategory(budgets', shown'.user, shown'.category) = {}
      ]_vars

\* a limit has been set again for a category in which both users have a
\* budget; the table has the new limit once
C26_Witness ==
    /\ BudgetWasSet
    /\ shown.user = 1 /\ shown.category = "Eda" /\ shown.amount = 1
    /\ Len(budgets) = 3
    /\ budgets[1].user_id = 1 /\ budgets[1].category_id = get_category_id("Drugoe")
    /\ budgets[2].user_id = 2 /\ budgets[2].category_id = get_category_id("Eda")
    /\ budgets[3] = [ user_id |-> 1, category_id |-> get_category_id("Eda"),
                      amount_limit |-> 1, period |-> "monthly" ]

\* the reports that hold the answer of get_budget_status
StatusShown == shown.cmd \in {"budget", "budget_list", "advice"}

\* C27: for every budget that get_budget_status returns, the derived fields
\* are computed at read time from the stored limit and the current spend:
\* is_exceeded is true exactly when current_spent > amount_limit (a spend
\* equal to the limit is not exceeded), and remaining is amount_limit -
\* current_spent.
C27_DerivedFields ==
    /\ \A i \in 1..Len(budgets) :
          DOMAIN budgets[i] = {"user_id", "category_id", "amount_limit", "period"}
    /\ StatusShown =>
          \A i \in 1..Len(shown.status) :
              LET b == shown.status[i]
              IN  /\ \E j \in RowsOfCategory(budgets, shown.user, b.category) :
                        /\ budgets[j].amount_limit = b.amount_limit
                        /\ budgets[j].period = b.period
                  /\ b.current_spent = TotalOf(stats[shown.user], {b.category})
                  /\ b.is_exceeded <=> b.current_spent > b.amount_limit
                  /\ b.remaining = b.amount_limit - b.current_spent
    /\ (StatusShown /\ (shown.cmd = "advice" =>
                           stats[shown.user].overall.transaction_count > 0)) =>
          Len(shown.status)
            = Cardinality({j \in 1..Len(budgets) : budgets[j].user_id = shown.user})

\* /budget list with a budget spent exactly to its limit, which is not
\* exceeded, and a budget spent beyond its limit
C27_Witness ==
    /\ shown.cmd = "budget_list"
    /\ \E i \in 1..Len(shown.status) :
          /\ shown.status[i].amount_limit = 1
          /\ shown.status[i].current_spent = 1
          /\ ~shown.status[i].is_exceeded
          /\ shown.status[i].remaining = 0
    /\ \E i \in 1..Len(shown.status) :
          /\ shown.status[i].amount_limit = 0
          /\ shown.status[i].current_spent = 1
          /\ shown.status[i].is_exceeded
          /\ shown.status[i].remaining = -1

\* C29: after init_db, after any number of repeated init_db calls and after
\* any sequence of operations of the bot, the categories table contains
\* exactly the seed names, each once; no operation adds, renames or deletes a
\* category.
C29_SeedCategories ==
    /\ \A name \in SeedNames :
          Cardinality({i \in 1..Len(categories) : categories[i] = name}) = 1
    /\ \A i \in 1..Len(categories) : categories[i] \in SeedNames
    /\ Len(categories) = Len(DEFAULT_CATEGORIES)

\* the bot has been started again on a database with transactions and
\* budgets
C29_Witness ==
    /\ shown.cmd = "start"
    /\ stats[1].overall.transaction_count > 0
    /\ Len(budgets) > 1
    /\ categories = DEFAULT_CATEGORIES

(***************************************************************************)
(* Properties of the stored transactions                                   *)
(***************************************************************************)
\* the handlers that call database.insert_transaction
CommitHandlers ==
    {"add_transaction_text", "confirm_category_callback", "fast_amount_input"}

C30_CancelStops ==
    [][\A u \in Users : \A t \in Texts :
          (last[u].h = "cancel" /\ Process(u, TextMessage(t), FALSE))
          => /\ db' = db
             /\ last'[u].calls = <<>>
             /\ last'[u].h \notin {"add_transaction_text", "fast_amount_input"}]_vars

(***************************************************************************)
(* Properties of the two conversations of one user                         *)
(***************************************************************************)
\* C31: while a user's /fast conversation awaits the amount, the next plain
\* text of that user is handled by fast_amount_input, whether or not the same
\* user has an unfinished /add conversation; the two conversations of one
\* user never consume each other's input.
C31_FastTakesAmount ==
    [][\A u \in Users : \A t \in Texts :
          (fast_conv[u] = FAST_AMOUNT /\ Process(u, TextMessage(t), FALSE))
          => /\ last'[u].h = "fast_amount_input"
             /\ conv'[u] = conv[u]]_vars

\* C32: every transaction committed by the /add flow (by the auto-commit or
\* by confirm_yes) has a category id that is not null and is the id of an
\* existing category, also when the label the classifier predicts is not a
\* name of the categories table.
C32_AddCategory ==
    [][\A u \in Users :
          ( /\ actor' = u
            /\ last'[u].h \in {"add_transaction_text", "confirm_category_callback"}
            /\ last'[u].calls # <<>>
            /\ last'[u].ok )
          => /\ db' = Append(db, last'[u].calls[1])
             /\ last'[u].calls[1].category_id \in CategoryIds]_vars

\* the step leaves the tables, the pending state and both conversations of
\* the user as they were
NothingChanged(u) ==
    /\ db' = db
    /\ last'[u].calls = <<>>
    /\ user_data'[u] = user_data[u]
    /\ conv'[u] = conv[u]
    /\ fast_conv'[u] = fast_conv[u]

\* C33: a rejected input changes nothing: when add_transaction_text cannot
\* parse an amount, or fast_amount_input gets an amount that fails the
\* validation, no transaction is inserted, the pending state of the user is
\* unchanged, and the conversation stays in its state, so that the user is
\* prompted again.
C33_RejectedInput ==
    [][\A u \in Users : \A t \in Texts :
          /\ ( /\ last'[u].h = "add_transaction_text"
               /\ Process(u, TextMessage(t), FALSE)
               /\ parse_amount(t).amount = NoAmount )
             => (NothingChanged(u) /\ conv'[u] = DESCRIPTION
                 /\ last'[u].msg = "cannot_parse")
          /\ ( /\ last'[u].h = "fast_amount_input"
               /\ Process(u, TextMessage(t), FALSE)
               /\ ~CheckAmount(t, parse_amount(t).amount).success )
             => (NothingChanged(u) /\ fast_conv'[u] = FAST_AMOUNT
                 /\ last'[u].msg = "invalid_amount")]_vars

\* a rejected amount in /fast: the chosen category is still pending and the
\* conversation still awaits the amount
C33_Witness ==
    /\ last[1].h = "fast_amount_input"
    /\ last[1].msg = "invalid_amount"
    /\ fast_conv[1] = FAST_AMOUNT
    /\ Has(user_data[1], "fast_category_id")
    /\ db = <<>>

(***************************************************************************)
(* Properties of /fast                                                     *)
(***************************************************************************)
\* 0 < amount <= 1,000,000,000
AcceptedAmount(a) ==
    /\ a # NoAmount
    /\ ~a.neg
    /\ ~(a.whole = 0 /\ a.frac = <<>>)
    /\ a.whole < 1000000000 \/ (a.whole = 1000000000 /\ a.frac = <<>>)

\* C34: every transaction committed by the /fast flow has the category id
\* that the user selected in that /fast conversation, an amount accepted by
\* validate_amount (0 < amount <= 1,000,000,000) and a null description; a
\* fast_cat callback whose id is not an existing category ends the
\* conversation without storing a category or inserting.
C34_FastCommit ==
    [][\A u \in Users :
          \* the selection stores the id of the button and awaits the amount
          /\ \A i \in PickIds("fast_cat") :
                ( /\ last'[u].h = "fast_category_callback"
                  /\ Process(u, CallbackQuery(CallbackData("fast_cat", i)), FALSE) )
                => IF i \in CategoryIds
                   THEN /\ fast_conv'[u] = FAST_AMOUNT
                        /\ Get(user_data'[u], "fast_category_id", NoId) = i
                        /\ db' = db
                   ELSE /\ fast_conv'[u] = None
                        /\ user_data'[u] = user_data[u]
                        /\ last'[u].calls = <<>>
                        /\ db' = db
          \* while the amount is awaited, no step stores another category
          /\ (fast_conv[u] = FAST_AMOUNT /\ fast_conv'[u] = FAST_AMOUNT)
             => Get(user_data'[u], "fast_category_id", NoId)
                  \in {Get(user_data[u], "fast_category_id", NoId), NoId}
          \* the commit takes the stored category
          /\ ( /\ actor' = u
               /\ last'[u].h = "fast_amount_input"
               /\ last'[u].calls # <<>> )
             => /\ fast_conv[u] = FAST_AMOUNT
                /\ last'[u].calls[1].category_id
                     = Get(user_data[u], "fast_category_id", NoId)
                /\ last'[u].calls[1].category_id \in CategoryIds
                /\ AcceptedAmount(last'[u].calls[1].amount)
                /\ last'[u].calls[1].description = NoText
                /\ last'[u].calls[1].user_id = u]_vars

\* a transaction of /fast with the category of the button
C34_Witness ==
    /\ last[1].h = "fast_amount_input"
    /\ last[1].msg = "added"
    /\ db = <<[ user_id |-> 1, amount |-> [neg |-> FALSE, whole |-> 300, frac |-> <<>>],
                description |-> NoText, category_id |-> 5 ]>>

(***************************************************************************)
(* Properties of the manual selection                                      *)
(***************************************************************************)
CategoryFields == {"suggested_category", "category_id", "is_auto_category"}

\* the two dicts agree outside the category fields
SameButCategory(ud1, ud2) ==
    /\ (DOMAIN ud1) \ CategoryFields = (DOMAIN ud2) \ CategoryFields
    /\ \A k \in (DOMAIN ud1) \ CategoryFields : ud1[k] = ud2[k]

\* C35: category_selection_callback changes only the pending category fields
\* (suggested_category, category_id, is_auto_category): for every select_cat
\* event the pending amount and description are unchanged and nothing is
\* inserted, and for an id that is not an existing category the whole
\* pending state and the state of the conversation are unchanged.
C35_SelectionFrame ==
    [][\A u \in Users : \A id \in PickIds("select_cat") : \A raises \in BOOLEAN :
          ( /\ last'[u].h = "category_selection_callback"
            /\ Process(u, CallbackQuery(CallbackData("select_cat", id)), raises) )
          => /\ db' = db
             /\ last'[u].calls = <<>>
             /\ SameButCategory(user_data[u], user_data'[u])
             /\ conv'[u] = CONFIRM_CATEGORY
             /\ fast_conv'[u] = fast_conv[u]
             /\ IF id \in CategoryIds
                THEN /\ user_data'[u]["category_id"] = id
                     /\ user_data'[u]["suggested_category"] = DEFAULT_CATEGORIES[id]
                     /\ user_data'[u]["is_auto_category"] = FALSE
                ELSE user_data'[u] = user_data[u]]_vars

\* a category selected by hand for a pending amount and description
C35_Witness ==
    /\ last[1].h = "category_selection_callback"
    /\ last[1].msg = "confirm"
    /\ Get(user_data[1], "category_id", NoId) = 3
    /\ Get(user_data[1], "description", NoText) = <<"o", "b", "e", "d">>
    /\ Has(user_data[1], "amount")
    /\ db = <<>>

(***************************************************************************)
(* Properties of the confident answer                                      *)
(***************************************************************************)
\* C36: whenever predict_with_threshold returns is_confident = True, for any
\* text and any threshold that a caller passes, the category it returns is a
\* label and not None.
C36_ConfidentHasLabel ==
    query.answer.is_confident => query.answer.category # None

(***************************************************************************)
(* Properties of the closing advice                                        *)
(***************************************************************************)
AdviceHas(kind, group) ==
    \E i \in 1..Len(shown.lines) : shown.lines[i] = [kind |-> kind, group |-> group]

\* C37: the closing advice of generate_budget_recommendations agrees with the
\* classification of the groups: "excellent distribution" is given exactly
\* when essentials and wants are both on target, and the advice to cut the
\* essential spending is given only when essentials are over target, never
\* when they are under target.
C37_ClosingAdvice ==
    (shown.cmd = "advice" /\ stats[1].overall.total_amount > 0) =>
        LET st    == stats[1]
            total == st.overall.total_amount
            essentials == ClassOf(TotalOf(st, EssentialNames), total, 50)
            wants      == ClassOf(TotalOf(st, WantNames), total, 30)
        IN  /\ AdviceHas("great", "all") <=> (essentials = "on" /\ wants = "on")
            /\ AdviceHas("cut", "essentials") => essentials = "over"

(***************************************************************************)
(* Properties of the budgets as shown                                      *)
(***************************************************************************)
\* C38: the status that format_budget_status shows agrees with the exceeded
\* flag of get_budget_status: for every budget, with any stored limit (0 and
\* negative limits included) and any spend, the budget is shown with the
\* exceeded mark and the amount of the overrun exactly when is_exceeded is
\* true.
C38_ShownExceeded ==
    shown.cmd \in {"budget", "budget_list"} =>
        /\ Len(shown.rendered) = Len(shown.status)
        /\ \A i \in 1..Len(shown.status) :
              /\ shown.rendered[i].overrun <=> shown.status[i].is_exceeded
              /\ shown.rendered[i].status = "exceeded" <=> shown.status[i].is_exceeded

(***************************************************************************)
(* Properties of the statistics of a period                                *)
(***************************************************************************)
\* C39: for a user and a period with at least one transaction,
\* get_period_statistics returns as most_expensive the transaction with the
\* greatest amount of the period and as most_frequent the category with the
\* greatest number of transactions; both are None only when the period has
\* no transaction.
C39_MostExpensive ==
    \A u \in Users :
        IF stats[u].overall.transaction_count = 0
        THEN stats[u].most_expensive = NoRow /\ stats[u].most_frequent = NoRow
        ELSE /\ stats[u].most_expensive.present
             /\ stats[u].most_expensive.amount \in stats[u].amounts
             /\ \A a \in stats[u].amounts : a <= stats[u].most_expensive.amount
             /\ stats[u].most_frequent.present
             /\ stats[u].most_frequent.category \in DOMAIN stats[u].counts
             /\ \A c \in DOMAIN stats[u].counts :
                   stats[u].counts[c] <= stats[u].most_frequent.count

====
